---- MODULE Spec2Model ----
(***************************************************************************)
(* A model of the drawing detector: the region tracer, the region merger,  *)
(* the pixel analyzers (red elements, highlights, overlapping text), the   *)
(* text analyzers (missing references, pdf-text overlaps), the analyzer    *)
(* promises and the page orchestrator of App.jsx.                          *)
(*                                                                         *)
(* Numbers of PDF space are dyadic fixed point: a value v is the integer   *)
(* v * Den, so that floor, ceil and the products of the coordinate mapper  *)
(* are exact, as they are in IEEE doubles for such values.                 *)
(***************************************************************************)
EXTENDS Integers, Sequences, FiniteSets, TLC

VARIABLES
    \* ---- region merger, run on its own (SpecMerge)
    mKind,      \* which analyzer's merger: "red" | "highlight" | "black"
    mInput,     \* the list of boxes handed to the merger
    mOut,       \* what the merger returned for mInput
    mOut2,      \* what the merger returned for mOut
    mPhase,     \* "input" | "merged" | "remerged"
    \* ---- one page scan of a pixel analyzer, seed by seed (SpecScan)
    sKind,      \* the analyzer scanning: "red" | "highlight" | "black"
    sImg,       \* the page's pixel buffer [width, height, data]
    sSeed,      \* index of the next seed position of the double for-loop
    sVisited,   \* the scan's shared visited set
    sElements,  \* the elements kept so far
    sTraced,    \* history: pixel count and member pixels of every traced region
    sAddCalls,  \* history: number of visited.add calls made so far
    sMerged,    \* the merged elements the scan returned
    sPhase,     \* "scan" | "done"
    \* ---- one call of a text analyzer (SpecText)
    tAnalyzer,  \* the analyzer called: "none" | "noRefs" | "overlappingText"
    tPdfPage,   \* the pdfPage argument
    tImage,     \* the imageData argument, by its name in the catalogue
    tOnProgress,\* whether an onProgress callback was passed
    tResult,    \* the value the call resolved to
    tProgress,  \* the counts onProgress was called with
    tPhase,     \* "input" | "resolved"
    \* ---- one call of an analyzer and its promise (SpecCalls)
    call,       \* the call: its arguments, its promise, the image event
    \* ---- App.jsx: handleFileUpload and the component's state (Spec)
    upload,     \* the result argument: imagePages and pdfPages
    geotechData,\* whether a geotechnical report has been uploaded
    pc,         \* the await handleFileUpload is suspended at
    pageNum,    \* i + 1 of the page loop
    calls,      \* every analyzer call made, in the order of the calls
    awaited,    \* the index in calls of the promise awaited
    locals,     \* redElements, highlights and noRefs of the current page
    allPageResults,
    globalGeotechVerification,
    loading,
    error,
    results,
    progress,
    shownPages,    \* the state pages: what DetectionResults is handed as pages
    shownPdfPages, \* the state pdfPages: what it is handed as pdfPages
    \* ---- FileUpload and the runs of handleFileUpload it starts (SpecUploads)
    processing, \* FileUpload's state: the file input is disabled while it is set
    file,       \* what the file handleFileChange is reading will give
    runs,       \* every invocation of handleFileUpload: its argument and locals
    \* ---- one call of a function of the geotechnical check (SpecGeotech)
    geo         \* the function called, its arguments and what it returned

mergeVars == <<mKind, mInput, mOut, mOut2, mPhase>>
scanVars == <<sKind, sImg, sSeed, sVisited, sElements, sTraced, sAddCalls,
              sMerged, sPhase>>
textVars == <<tAnalyzer, tPdfPage, tImage, tOnProgress, tResult, tProgress,
              tPhase>>
vars == <<mKind, mInput, mOut, mOut2, mPhase,
          sKind, sImg, sSeed, sVisited, sElements, sTraced, sAddCalls,
          sMerged, sPhase,
          tAnalyzer, tPdfPage, tImage, tOnProgress, tResult, tProgress, tPhase,
          call,
          upload, geotechData, pc, pageNum, calls, awaited, locals,
          allPageResults, globalGeotechVerification, loading, error, results,
          progress, shownPages, shownPdfPages,
          processing, file, runs,
          geo>>
appVars == <<upload, geotechData, pc, pageNum, calls, awaited, locals,
             allPageResults, globalGeotechVerification, loading, error,
             results, progress, shownPages,
             shownPdfPages>>
uploadVars == <<processing, file, runs>>

notMergeVars == <<scanVars, textVars, call, appVars, geo, uploadVars>>
notScanVars == <<mergeVars, textVars, call, appVars, geo, uploadVars>>
notTextVars == <<mergeVars, scanVars, call, appVars, geo, uploadVars>>
notCallVars == <<mergeVars, scanVars, textVars, appVars, geo, uploadVars>>
notAppVars == <<mergeVars, scanVars, textVars, call, geo, uploadVars>>
notGeoVars == <<mergeVars, scanVars, textVars, call, appVars, uploadVars>>

\* the values of a part's variables while another part is checked on its own
NoGeoCall == [op |-> "none"]

GeoIdle == geo = NoGeoCall

MergeIdle ==
    /\ mKind = "red"
    /\ mInput = <<>>
    /\ mOut = <<>>
    /\ mOut2 = <<>>
    /\ mPhase = "idle"

ScanIdle ==
    /\ sKind = "red"
    /\ sImg = [width |-> 0, height |-> 0, data |-> <<>>]
    /\ sSeed = 0
    /\ sVisited = {}
    /\ sElements = <<>>
    /\ sTraced = <<>>
    /\ sAddCalls = 0
    /\ sMerged = <<>>
    /\ sPhase = "idle"

\* ------------------------------------------------------------------------
\* Arithmetic helpers (Math.min, Math.max, Math.floor, Math.ceil)
\* ------------------------------------------------------------------------
Min2(a, b) == IF a <= b THEN a ELSE b
Max2(a, b) == IF a >= b THEN a ELSE b
Max3(a, b, c) == Max2(a, Max2(b, c))

\* F applied to the value of e: e is computed once, before F's body is
Then(e, F(_)) == CHOOSE r \in { F(v) : v \in {e} } : TRUE

\* ------------------------------------------------------------------------
\* Region merger
\* ------------------------------------------------------------------------
RedMergeDistance == 15
HighlightMergeDistance == 20
RegionMergeDistance == 10

\* gap between two boxes on each axis, clamped at 0
HorizontalDistance(element, other) ==
    Max3(element.x - (other.x + other.width),
         other.x - (element.x + element.width),
         0)

VerticalDistance(element, other) ==
    Max3(element.y - (other.y + other.height),
         other.y - (element.y + element.height),
         0)

\* a merged element that keeps the pixel count of the first element only
MergeTwoFirstCount(element, other) ==
    [x |-> Min2(element.x, other.x),
     y |-> Min2(element.y, other.y),
     width |-> Max2(element.x + element.width, other.x + other.width)
                 - Min2(element.x, other.x),
     height |-> Max2(element.y + element.height, other.y + other.height)
                  - Min2(element.y, other.y),
     pixelCount |-> element.pixelCount,
     detectionMethod |-> "undefined", isCanvasCoords |-> FALSE]

\* the object literal built when two elements are merged: the enclosing box
\* and the summed pixel count; no other field is carried over
MergeTwo(element, other) ==
    LET minX == Min2(element.x, other.x)
        minY == Min2(element.y, other.y)
        maxX == Max2(element.x + element.width, other.x + other.width)
        maxY == Max2(element.y + element.height, other.y + other.height)
    IN [x |-> minX, y |-> minY, width |-> maxX - minX, height |-> maxY - minY,
        pixelCount |-> element.pixelCount + other.pixelCount,
        detectionMethod |-> "undefined", isCanvasCoords |-> FALSE]

\* the inner for-loop over j: st = [element, processed, merged]
RECURSIVE MergeInner(_, _, _, _)
MergeInner(st, currentElements, j, mergeDistance) ==
    IF j > Len(currentElements) THEN st
    ELSE IF j \in st.processed
         THEN MergeInner(st, currentElements, j + 1, mergeDistance)
         ELSE LET other == currentElements[j]
              IN IF /\ HorizontalDistance(st.element, other) <= mergeDistance
                    /\ VerticalDistance(st.element, other) <= mergeDistance
                 THEN MergeInner([element |-> MergeTwo(st.element, other),
                                  processed |-> st.processed \cup {j},
                                  merged |-> TRUE],
                                 currentElements, j + 1, mergeDistance)
                 ELSE MergeInner(st, currentElements, j + 1, mergeDistance)

\* newElements.push(element) after the inner loop left the state st
MergePushed(newElements, st) ==
    [newElements |-> Append(newElements, st.element),
     processed |-> st.processed,
     merged |-> st.merged]

\* the outer for-loop over i: acc = [newElements, processed, merged]
RECURSIVE MergeOuter(_, _, _, _)
MergeOuter(acc, currentElements, i, mergeDistance) ==
    IF i > Len(currentElements) THEN acc
    ELSE IF i \in acc.processed
         THEN MergeOuter(acc, currentElements, i + 1, mergeDistance)
         ELSE Then(MergeInner([element |-> currentElements[i],
                               processed |-> acc.processed \cup {i},
                               merged |-> acc.merged],
                              currentElements, i + 1, mergeDistance),
                   LAMBDA st : MergeOuter(MergePushed(acc.newElements, st),
                                          currentElements, i + 1, mergeDistance))

\* an iteration that does not reset merged at its start
MergePassFlagged(currentElements, mergeDistance) ==
    MergeOuter([newElements |-> <<>>, processed |-> {}, merged |-> TRUE],
               currentElements, 1, mergeDistance)

\* one iteration of the while loop
MergePass(currentElements, mergeDistance) ==
    MergeOuter([newElements |-> <<>>, processed |-> {}, merged |-> FALSE],
               currentElements, 1, mergeDistance)

\* while (merged) { ... }: pass is the iteration just made
RECURSIVE MergeLoop(_, _)
MergeLoop(pass, mergeDistance) ==
    IF pass.merged
    THEN Then(MergePass(pass.newElements, mergeDistance),
              LAMBDA next : MergeLoop(next, mergeDistance))
    ELSE pass.newElements

\* a merger that stops after its first pass
MergeOnePass(elements, mergeDistance) ==
    IF Len(elements) = 0 THEN elements
    ELSE MergePass(elements, mergeDistance).newElements

MergeWithin(elements, mergeDistance) ==
    IF Len(elements) = 0 THEN elements
    ELSE Then(MergePass(elements, mergeDistance),
              LAMBDA first : MergeLoop(first, mergeDistance))

mergeNearbyElements(elements) == MergeWithin(elements, RedMergeDistance)
mergeNearbyHighlights(elements) == MergeWithin(elements, HighlightMergeDistance)
mergeNearbyRegions(elements) == MergeWithin(elements, RegionMergeDistance)

Kinds == {"red", "highlight", "black"}

\* what a traced region of each analyzer carries besides box and count
TracedMethodOf(kind) == IF kind = "black" THEN "pixel" ELSE "undefined"
TracedCanvasFlagOf(kind) == kind = "black"

MergeDistanceOf(kind) ==
    CASE kind = "red" -> RedMergeDistance
      [] kind = "highlight" -> HighlightMergeDistance
      [] kind = "black" -> RegionMergeDistance

MergerOf(kind, elements) ==
    CASE kind = "red" -> mergeNearbyElements(elements)
      [] kind = "highlight" -> mergeNearbyHighlights(elements)
      [] kind = "black" -> mergeNearbyRegions(elements)

\* ------------------------------------------------------------------------
\* Pixel buffers and the pixel predicates
\* ------------------------------------------------------------------------
\* the colours the modelled pages are painted with, as RGB bytes
RGB(colour) ==
    CASE colour = "white"    -> <<255, 255, 255>>
      [] colour = "red"      -> <<220, 30, 30>>
      [] colour = "fadedRed" -> <<90, 40, 40>>
      [] colour = "pink"     -> <<200, 160, 160>>
      [] colour = "grey"     -> <<150, 150, 150>>
      [] colour = "yellow"   -> <<255, 255, 0>>
      [] colour = "black"    -> <<20, 20, 20>>

\* data[(y * width + x) * 4 .. + 2]
PixelAt(img, x, y) == RGB(img.data[y * img.width + x])

Abs(a) == IF a < 0 THEN -a ELSE a

\* r > g * 1.3 is 10r > 13g, r > g * 1.5 is 2r > 3g
isReddish(r, g, b) ==
    \/ (r > 150 /\ 10 * r > 13 * g /\ 10 * r > 13 * b)
    \/ (r > 100 /\ 2 * r > 3 * g /\ 2 * r > 3 * b /\ r > 50)
    \/ (r > 80 /\ r > 2 * g /\ r > 2 * b)

\* avg = (r + g + b) / 3, so avg > 120 is r + g + b > 360
isHighlight(r, g, b) ==
    LET maxDiff == Max3(Abs(r - g), Abs(g - b), Abs(r - b))
        isGreyHighlight == maxDiff < 40 /\ r + g + b > 360 /\ r + g + b < 540
        isColorHighlight ==
            \/ (r > 200 /\ g > 200 /\ b < 150)
            \/ (r < 150 /\ g > 200 /\ b < 150)
            \/ (r < 150 /\ g < 150 /\ b > 200)
            \/ (r > 200 /\ g < 150 /\ b > 200)
    IN isGreyHighlight \/ isColorHighlight

isBlack(r, g, b) == r < 80 /\ g < 80 /\ b < 80

PredicateOf(kind, rgb) ==
    CASE kind = "red"       -> isReddish(rgb[1], rgb[2], rgb[3])
      [] kind = "highlight" -> isHighlight(rgb[1], rgb[2], rgb[3])
      [] kind = "black"     -> isBlack(rgb[1], rgb[2], rgb[3])

\* ------------------------------------------------------------------------
\* Region tracer
\* ------------------------------------------------------------------------
RedPixelCap == 100000
HighlightPixelCap == 100000
BlackPixelCap == 10000

PixelCapOf(kind) ==
    CASE kind = "red"       -> RedPixelCap
      [] kind = "highlight" -> HighlightPixelCap
      [] kind = "black"     -> BlackPixelCap

\* a loop body that tests the bounds only before it reads the pixel: a
\* coordinate already visited is added and counted again, and only its
\* neighbours are not pushed a second time
TracePopRecounting(img, kind, t, p) ==
    LET x == p[1]
        y == p[2]
    IN IF x < 0 \/ x >= img.width \/ y < 0 \/ y >= img.height
       THEN t
       ELSE IF PredicateOf(kind, PixelAt(img, x, y))
            THEN [visited    |-> t.visited \cup {p},
                  pixelCount |-> t.pixelCount + 1,
                  minX       |-> Min2(t.minX, x),
                  maxX       |-> Max2(t.maxX, x),
                  minY       |-> Min2(t.minY, y),
                  maxY       |-> Max2(t.maxY, y),
                  next       |-> IF p \in t.visited THEN t.next
                                 ELSE t.next \o << <<x + 1, y>>, <<x - 1, y>>,
                                                   <<x, y + 1>>, <<x, y - 1>> >>,
                  addCalls   |-> t.addCalls + 1,
                  members    |-> t.members \cup {p}]
            ELSE t

\* a loop body that pushes the eight neighbours of a pixel
TracePopEightConnected(img, kind, t, p) ==
    LET x == p[1]
        y == p[2]
    IN IF \/ p \in t.visited
          \/ x < 0 \/ x >= img.width \/ y < 0 \/ y >= img.height
       THEN t
       ELSE IF PredicateOf(kind, PixelAt(img, x, y))
            THEN [visited    |-> t.visited \cup {p},
                  pixelCount |-> t.pixelCount + 1,
                  minX       |-> Min2(t.minX, x),
                  maxX       |-> Max2(t.maxX, x),
                  minY       |-> Min2(t.minY, y),
                  maxY       |-> Max2(t.maxY, y),
                  next       |-> t.next \o << <<x + 1, y>>, <<x - 1, y>>,
                                              <<x, y + 1>>, <<x, y - 1>>,
                                              <<x + 1, y + 1>>, <<x - 1, y - 1>>,
                                              <<x - 1, y + 1>>, <<x + 1, y - 1>> >>,
                  addCalls   |-> t.addCalls + 1,
                  members    |-> t.members \cup {p}]
            ELSE t

\* the body of the while loop for one shifted queue entry p; t.next collects
\* what is pushed behind the entries already queued
TracePop(img, kind, t, p) ==
    LET x == p[1]
        y == p[2]
    IN IF \/ p \in t.visited
          \/ x < 0 \/ x >= img.width \/ y < 0 \/ y >= img.height
       THEN t
       ELSE IF PredicateOf(kind, PixelAt(img, x, y))
            THEN [visited    |-> t.visited \cup {p},
                  pixelCount |-> t.pixelCount + 1,
                  minX       |-> Min2(t.minX, x),
                  maxX       |-> Max2(t.maxX, x),
                  minY       |-> Min2(t.minY, y),
                  maxY       |-> Max2(t.maxY, y),
                  next       |-> t.next \o << <<x + 1, y>>, <<x - 1, y>>,
                                              <<x, y + 1>>, <<x, y - 1>> >>,
                  addCalls   |-> t.addCalls + 1,
                  members    |-> t.members \cup {p}]
            ELSE t

\* shifts the entries q[i..j] of the queue in order while the cap allows:
\* the first half of them, then the rest
RECURSIVE TraceDrain(_, _, _, _, _, _)
TraceDrain(img, kind, t, q, i, j) ==
    IF i > j THEN t
    ELSE IF i = j
         THEN IF t.pixelCount >= PixelCapOf(kind) THEN t
              ELSE TracePop(img, kind, t, q[i])
         ELSE Then(TraceDrain(img, kind, t, q, i, (i + j) \div 2),
                   LAMBDA half : TraceDrain(img, kind, half, q, (i + j) \div 2 + 1, j))

\* The queue is t.next, the entries pushed by the pops made so far; it is
\* drained one generation after the other, each pop pushing behind the whole
\* of its generation.  TraceGeneration is the loop from the first entry of a
\* generation to its last.
TraceGeneration(img, kind, t) ==
    IF Len(t.next) = 0 \/ t.pixelCount >= PixelCapOf(kind) THEN t
    ELSE TraceDrain(img, kind, [t EXCEPT !.next = <<>>], t.next, 1, Len(t.next))

\* n generations: the first half of them, then the rest
RECURSIVE TraceGenerations(_, _, _, _)
TraceGenerations(img, kind, t, n) ==
    IF n <= 1 THEN TraceGeneration(img, kind, t)
    ELSE Then(TraceGenerations(img, kind, t, n \div 2),
              LAMBDA half : TraceGenerations(img, kind, half, n - n \div 2))

\* while (queue.length > 0 && pixelCount < cap): a generation that adds no
\* pixel pushes nothing, so the queue is empty after at most one generation
\* more than the image has pixels
TraceLoop(img, kind, t) ==
    TraceGenerations(img, kind, t, img.width * img.height + 1)

\* a returned object whose width and height count the pixels of the box
TraceReturnWithExtent(kind, t) ==
    [element  |-> [x |-> t.minX, y |-> t.minY,
                   width |-> t.maxX - t.minX + 1, height |-> t.maxY - t.minY + 1,
                   pixelCount |-> t.pixelCount,
                   detectionMethod |-> TracedMethodOf(kind),
                   isCanvasCoords |-> TracedCanvasFlagOf(kind)],
     visited  |-> t.visited,
     addCalls |-> t.addCalls,
     members  |-> t.members]

\* the object returned once the loop has left the state t, with the visited
\* set as the loop left it
TraceReturn(kind, t) ==
    [element  |-> [x |-> t.minX, y |-> t.minY,
                   width |-> t.maxX - t.minX, height |-> t.maxY - t.minY,
                   pixelCount |-> t.pixelCount,
                   detectionMethod |-> TracedMethodOf(kind),
                   isCanvasCoords |-> TracedCanvasFlagOf(kind)],
     visited  |-> t.visited,
     addCalls |-> t.addCalls,
     members  |-> t.members]

TraceFrom(img, kind, startX, startY, visited) ==
    Then(TraceLoop(img, kind,
                   [visited |-> visited, pixelCount |-> 0,
                    minX |-> startX, maxX |-> startX,
                    minY |-> startY, maxY |-> startY,
                    next |-> << <<startX, startY>> >>,
                    addCalls |-> 0, members |-> {}]),
         LAMBDA t : TraceReturn(kind, t))

\* traceElement, traceHighlightedArea and traceBlackRegion differ in the
\* predicate, the cap and the fields of the returned object only
TraceRegion(img, kind, startX, startY, visited) ==
    TraceFrom(img, kind, startX, startY, visited)

\* ------------------------------------------------------------------------
\* Filters applied to a traced region
\* ------------------------------------------------------------------------
RedNoiseThreshold == 50

\* the sampled columns and rows of a stride-2 loop over a box, clipped to
\* the image
SampleXs(area, width) ==
    { x \in area.x .. (Min2(area.x + area.width, width) - 1) :
        (x - area.x) % 2 = 0 }

SampleYs(area, height) ==
    { y \in area.y .. (Min2(area.y + area.height, height) - 1) :
        (y - area.y) % 2 = 0 }

BlackAt(img, x, y) ==
    LET rgb == PixelAt(img, x, y) IN isBlack(rgb[1], rgb[2], rgb[3])

HighlightAt(img, x, y) ==
    LET rgb == PixelAt(img, x, y) IN isHighlight(rgb[1], rgb[2], rgb[3])

\* ratio > 0.15 with ratio = samples > 0 ? black / samples : 0
OutlinedEdge(black, samples) == samples > 0 /\ 100 * black > 15 * samples

isRectangularOrTrapezoidal(img, area) ==
    LET xs == SampleXs(area, img.width)
        ys == SampleYs(area, img.height)
        greyPixelsInBox ==
            Cardinality({ p \in xs \X ys : HighlightAt(img, p[1], p[2]) })
        sampledTotal == ((area.width + 1) \div 2) * ((area.height + 1) \div 2)
        totalArea == area.width * area.height
        topY == Max2(0, area.y - 2)
        bottomY == Min2(img.height - 1, area.y + area.height + 2)
        leftX == Max2(0, area.x - 2)
        rightX == Min2(img.width - 1, area.x + area.width + 2)
        top == OutlinedEdge(Cardinality({ x \in xs : BlackAt(img, x, topY) }),
                            Cardinality(xs))
        bottom == OutlinedEdge(Cardinality({ x \in xs : BlackAt(img, x, bottomY) }),
                               Cardinality(xs))
        left == OutlinedEdge(Cardinality({ y \in ys : BlackAt(img, leftX, y) }),
                             Cardinality(ys))
        right == OutlinedEdge(Cardinality({ y \in ys : BlackAt(img, rightX, y) }),
                              Cardinality(ys))
        edgesWithBlackOutline ==
            Cardinality({ e \in {"top", "bottom", "left", "right"} :
                \/ (e = "top" /\ top) \/ (e = "bottom" /\ bottom)
                \/ (e = "left" /\ left) \/ (e = "right" /\ right) })
    IN IF totalArea < 1200 THEN FALSE
       ELSE IF edgesWithBlackOutline >= 2 /\ area.width < 3 * area.height
            THEN FALSE
            ELSE 100 * greyPixelsInBox > 48 * sampledTotal

meetsSize(element) ==
    /\ element.pixelCount > 100
    /\ \/ (element.width > 15 /\ element.height > 5)
       \/ (element.width > 5 /\ element.height > 15)

\* blackCount and totalCount of calculateDensity
DensityCounts(img, element) ==
    LET cells == (element.x .. (Min2(element.x + element.width, img.width) - 1))
                 \X (element.y .. (Min2(element.y + element.height, img.height) - 1))
    IN [black |-> Cardinality({ p \in cells : BlackAt(img, p[1], p[2]) }),
        total |-> Cardinality(cells)]

\* the black/white transitions of one sampled line, x stepping by 2
RECURSIVE Transitions(_, _, _, _, _, _)
Transitions(img, y, x, endX, prevBlack, count) ==
    IF x >= endX \/ x >= img.width THEN count
    ELSE LET b == BlackAt(img, x, y)
         IN Transitions(img, y, x + 2, endX, b,
                        IF b # prevBlack THEN count + 1 ELSE count)

isOverlappingText(img, element) ==
    LET d == DensityCounts(img, element)
        \* blackCount / totalCount is NaN for an empty box: both tests fail
        densityOut == d.total > 0 /\ (100 * d.black < 32 * d.total
                                      \/ 100 * d.black > 70 * d.total)
        \* width / height: Infinity for height 0 and width > 0, NaN for 0 / 0
        aspectOut == IF element.height = 0 THEN element.width > 0
                     ELSE (element.width < 2 * element.height
                           \/ element.width > 15 * element.height)
        sampleLines == Min2(5, element.height)
        linesWithVariation ==
            Cardinality({ i \in 0 .. (sampleLines - 1) :
                LET y == element.y + ((element.height * i) \div sampleLines)
                IN /\ y < img.height
                   /\ Transitions(img, y, element.x, element.x + element.width,
                                  FALSE, 0) >= 6 })
    IN /\ ~densityOut
       /\ ~aspectOut
       /\ ~(element.height < 10 \/ element.height > 35)
       /\ ~(element.width < 30)
       /\ linesWithVariation >= 3

KeepElement(img, kind, element) ==
    CASE kind = "red"       -> element.pixelCount > RedNoiseThreshold
      [] kind = "highlight" -> meetsSize(element) /\ isRectangularOrTrapezoidal(img, element)
      [] kind = "black"     -> isOverlappingText(img, element)

\* ------------------------------------------------------------------------
\* The page scan
\* ------------------------------------------------------------------------
RedStride == 2
HighlightStride == 1
BlackStrideX == 6
BlackStrideY == 3

StrideXOf(kind) ==
    CASE kind = "red" -> RedStride [] kind = "highlight" -> HighlightStride
      [] kind = "black" -> BlackStrideX

StrideYOf(kind) ==
    CASE kind = "red" -> RedStride [] kind = "highlight" -> HighlightStride
      [] kind = "black" -> BlackStrideY

SeedColumns(img, kind) == (img.width + StrideXOf(kind) - 1) \div StrideXOf(kind)
SeedRows(img, kind) == (img.height + StrideYOf(kind) - 1) \div StrideYOf(kind)
NumSeeds(img, kind) == SeedColumns(img, kind) * SeedRows(img, kind)

\* the k-th position visited by the for-loops over y and x, k = 1, 2, ...
SeedAt(img, kind, k) ==
    << ((k - 1) % SeedColumns(img, kind)) * StrideXOf(kind),
       ((k - 1) \div SeedColumns(img, kind)) * StrideYOf(kind) >>

\* the scan state after the tracer, started at p, returned r: the element is
\* pushed if the analyzer's filter keeps it
ScanTraced(img, kind, s, r, p) ==
    [visited  |-> r.visited,
     elements |-> IF KeepElement(img, kind, r.element)
                  THEN Append(s.elements, r.element)
                  ELSE s.elements,
     traced   |-> Append(s.traced, [start |-> p, before |-> s.visited,
                                    element |-> r.element,
                                    pixelCount |-> r.element.pixelCount,
                                    members |-> r.members]),
     addCalls |-> s.addCalls + r.addCalls]

\* the body of the inner for-loop at seed p; s = [visited, elements, traced,
\* addCalls]
ScanAt(img, kind, s, p) ==
    IF PredicateOf(kind, PixelAt(img, p[1], p[2])) /\ p \notin s.visited
    THEN Then(TraceRegion(img, kind, p[1], p[2], s.visited),
              LAMBDA r : ScanTraced(img, kind, s, r, p))
    ELSE s

\* the for-loops over y and x, for the seed positions k .. last in the
\* order the loops visit them: the first half of them, then the rest
RECURSIVE ScanFrom(_, _, _, _, _)
ScanFrom(img, kind, s, k, last) ==
    IF k > last THEN s
    ELSE IF k = last THEN ScanAt(img, kind, s, SeedAt(img, kind, k))
    ELSE Then(ScanFrom(img, kind, s, k, (k + last) \div 2),
              LAMBDA half : ScanFrom(img, kind, half, (k + last) \div 2 + 1, last))

EmptyScan == [visited |-> {}, elements |-> <<>>, traced |-> <<>>, addCalls |-> 0]

\* the merged elements a whole page scan returns
FindElements(img, kind) ==
    MergerOf(kind, ScanFrom(img, kind, EmptyScan, 1, NumSeeds(img, kind)).elements)

\* ------------------------------------------------------------------------
\* Page images of the catalogue
\* ------------------------------------------------------------------------
\* an image painted by a rule: colourAt[<<x, y>>] for every pixel
Painted(width, height, colourAt) ==
    [width |-> width, height |-> height,
     data |-> [k \in 0 .. (width * height - 1) |->
                  colourAt[<< k % width, k \div width >>]]]

BlankImage ==
    Painted(4, 4, [p \in (0 .. 3) \X (0 .. 3) |-> "white"])

\* a red stamp of 8 x 7 pixels on a white page
RedStampImage ==
    Painted(10, 9, [p \in (0 .. 9) \X (0 .. 8) |->
        IF p[1] \in 1 .. 8 /\ p[2] \in 1 .. 7 THEN "red" ELSE "white"])

\* a yellow marker stroke of 41 x 31 pixels
HighlightedImage ==
    Painted(43, 33, [p \in (0 .. 42) \X (0 .. 32) |->
        IF p[1] \in 1 .. 41 /\ p[2] \in 1 .. 31 THEN "yellow" ELSE "white"])

\* two lines of text printed over each other: a bar with a stroke every
\* third column, 31 x 11 pixels
OverprintedImage ==
    Painted(31, 11, [p \in (0 .. 30) \X (0 .. 10) |->
        IF p[2] = 0 \/ (p[1] % 3 = 0 /\ p[1] < 30) THEN "black" ELSE "white"])

\* two overprinted lines of text, one white row apart
TwoLinesImage ==
    Painted(31, 23, [p \in (0 .. 30) \X (0 .. 22) |->
        IF p[2] # 11 /\ (p[2] % 12 = 0 \/ (p[1] % 3 = 0 /\ p[1] < 30))
        THEN "black" ELSE "white"])

\* ------------------------------------------------------------------------
\* The pixel analyzers on the catalogue
\* ------------------------------------------------------------------------
Catalogue ==
    <<BlankImage, RedStampImage, HighlightedImage, OverprintedImage, TwoLinesImage>>
ImageNames == <<"blank", "redStamp", "highlighted", "overprinted", "twoLines">>
NumberOf(name) == CHOOSE k \in 1 .. Len(ImageNames) : ImageNames[k] = name

\* what a scan returns for the images 1 .. k of the catalogue
RECURSIVE ScansUpTo(_, _)
ScansUpTo(kind, k) ==
    IF k = 0 THEN <<>>
    ELSE Append(ScansUpTo(kind, k - 1), FindElements(Catalogue[k], kind))

\* the three scans of every image of the catalogue, computed once
OnCatalogue ==
    [red       |-> ScansUpTo("red", Len(Catalogue)),
     highlight |-> ScansUpTo("highlight", Len(Catalogue)),
     black     |-> ScansUpTo("black", Len(Catalogue))]

\* findRedElementsWithProgress, findHighlightedTextWithProgress and
\* findOverlappingText on the image of the catalogue with this name
FindElementsOf(name, kind) == OnCatalogue[kind][NumberOf(name)]

\* ------------------------------------------------------------------------
\* Text items, strings and the numbers of PDF space
\* ------------------------------------------------------------------------
\* A string is a sequence of one-character strings.  A number of PDF space
\* (a position, a size, a scale, a transform entry) is held as the integer
\* number of its quarters.
Den == 2 * 2

Floor(n, d) == n \div d
Ceil(n, d) == -((-n) \div d)

Whitespace == {" ", "\t", "\n"}
Digits == {"0", "1", "2", "3", "4", "5", "6", "7", "8", "9"}
Letters == {"A", "B", "C", "D", "E", "N", "O", "S", "T", "X",
            "a", "b", "d", "s", "x"}

RECURSIVE TrimStart(_)
TrimStart(str) ==
    IF Len(str) > 0 /\ str[1] \in Whitespace THEN TrimStart(Tail(str)) ELSE str

RECURSIVE TrimEnd(_)
TrimEnd(str) ==
    IF Len(str) > 0 /\ str[Len(str)] \in Whitespace
    THEN TrimEnd(SubSeq(str, 1, Len(str) - 1)) ELSE str

\* String.prototype.trim
Trim(str) == TrimEnd(TrimStart(str))

\* the length of the run of dashes of str that starts at position i
RECURSIVE DashRun(_, _)
DashRun(str, i) ==
    IF i <= Len(str) /\ str[i] = "-" THEN 1 + DashRun(str, i + 1) ELSE 0

\* the pattern without the upper limit on the dashes: /^-+\/-+[.,;:]?$/
noRefPatternUnbounded(text) ==
    LET a == DashRun(text, 1)
        b == DashRun(text, a + 2)
        rest == SubSeq(text, a + 2 + b, Len(text))
    IN /\ a >= 1
       /\ Len(text) >= a + 1 /\ text[a + 1] = "/"
       /\ b >= 1
       /\ \/ Len(rest) = 0
          \/ (Len(rest) = 1 /\ rest[1] \in {".", ",", ";", ":"})

\* /^-{1,4}\/-{1,4}[.,;:]?$/.test(text): a dash group can only end where
\* the next character is the slash (or where the second group's follower
\* begins), so each group is a whole run of dashes
noRefPattern(text) ==
    LET a == DashRun(text, 1)
        b == DashRun(text, a + 2)
        rest == SubSeq(text, a + 2 + b, Len(text))
    IN /\ a >= 1 /\ a <= 4
       /\ Len(text) >= a + 1 /\ text[a + 1] = "/"
       /\ b >= 1 /\ b <= 4
       /\ \/ Len(rest) = 0
          \/ (Len(rest) = 1 /\ rest[1] \in {".", ",", ";", ":"})

\* entry k (counted from 0, as in the source) of a transform array
At(transform, k) == transform[k + 1]

\* `pdfPage && pdfPage.textItems`
HasTextItems(pdfPage) == ~pdfPage.isNull /\ pdfPage.hasTextItems

NullPage == [isNull |-> TRUE]

\* ------------------------------------------------------------------------
\* Missing-reference analyzer
\* ------------------------------------------------------------------------
\* the region pushed for a matching item: the viewport transform applied to
\* the item's position, the size scaled, the box shifted up by its height
NoRefRegionUnshifted(item, text, viewport) ==
    LET canvasXq == At(viewport.transform, 0) * At(item.transform, 4)
                        + At(viewport.transform, 4) * Den
        canvasYq == At(viewport.transform, 3) * At(item.transform, 5)
                        + At(viewport.transform, 5) * Den
    IN [x |-> Floor(canvasXq, Den * Den),
        y |-> Floor(canvasYq, Den * Den),
        width |-> Ceil(item.width * viewport.scale, Den * Den),
        height |-> Ceil(item.height * viewport.scale, Den * Den),
        text |-> text,
        detectionMethod |-> "pdf-text",
        isCanvasCoords |-> TRUE]

NoRefRegion(item, text, viewport) ==
    LET canvasXq == At(viewport.transform, 0) * At(item.transform, 4)
                        + At(viewport.transform, 4) * Den
        canvasYq == At(viewport.transform, 3) * At(item.transform, 5)
                        + At(viewport.transform, 5) * Den
        width == Ceil(item.width * viewport.scale, Den * Den)
        height == Ceil(item.height * viewport.scale, Den * Den)
    IN [x |-> Floor(canvasXq, Den * Den),
        y |-> Floor(canvasYq, Den * Den) - height,
        width |-> width,
        height |-> height,
        text |-> text,
        detectionMethod |-> "pdf-text",
        isCanvasCoords |-> TRUE]

\* the for-loop over pdfPage.textItems, from item i on
RECURSIVE NoRefsFrom(_, _, _)
NoRefsFrom(pdfPage, i, noRefs) ==
    IF i > Len(pdfPage.textItems) THEN noRefs
    ELSE LET item == pdfPage.textItems[i]
             text == Trim(item.str)
         IN NoRefsFrom(pdfPage, i + 1,
                       IF noRefPattern(text)
                       THEN Append(noRefs, NoRefRegion(item, text, pdfPage.viewport))
                       ELSE noRefs)

detectNoRefsFromPDF(pdfPage) ==
    IF ~HasTextItems(pdfPage) THEN <<>>
    ELSE NoRefsFrom(pdfPage, 1, <<>>)

\* what detectNoRefs returns once elements is computed, and the onProgress
\* calls it made
NoRefsReturn(hasOnProgress, pdfPage, elements) ==
    [result |->
        [detected |-> Len(elements) > 0,
         count |-> Len(elements),
         locations |-> elements,
         message |-> IF Len(elements) > 0
                     THEN <<"Found ", Len(elements), " missing reference(s) (-/---)">>
                     ELSE <<"No missing references detected">>],
     progress |-> IF HasTextItems(pdfPage) /\ hasOnProgress
                  THEN <<Len(elements)>> ELSE <<>>]

detectNoRefs(hasOnProgress, pdfPage) ==
    NoRefsReturn(hasOnProgress, pdfPage,
                 IF HasTextItems(pdfPage) THEN detectNoRefsFromPDF(pdfPage)
                 ELSE <<>>)

\* ------------------------------------------------------------------------
\* Overlapping-text analyzer, pdf-text method
\* ------------------------------------------------------------------------
isLikelyText(item) ==
    LET text == Trim(item.str)
    IN /\ Len(text) > 0
       /\ ~(Len(text) = 1 /\ text[1] \notin (Letters \cup Digits))
       /\ ~(item.height < 4 * Den \/ item.width < 4 * Den)
       /\ ~(Abs(At(item.transform, 0)) < 4 * Den)

\* /^\d{3}[A-Z]{1,2}\d{3}$/i.test(text)
isStandaloneDetailReference(text) ==
    /\ Len(text) \in {7, 8}
    /\ \A i \in 1 .. 3 : text[i] \in Digits
    /\ \A i \in 4 .. (Len(text) - 3) : text[i] \in Letters
    /\ \A i \in (Len(text) - 2) .. Len(text) : text[i] \in Digits

\* The bubble anchored at a detail reference.  Its fields are halves of
\* quarters (the padding and the centres halve a quarter), so every field
\* is the source's value times 2 * Den.
BubbleRegion(item) ==
    LET x == At(item.transform, 4)
        y == At(item.transform, 5)
        width == item.width
        height == item.height
        padding == Max2(width, height)
    IN [x |-> 2 * x - padding,
        y |-> 2 * y - 4 * height,
        width |-> 2 * width + 2 * padding,
        height |-> 6 * height,
        centerX |-> 2 * x + width,
        centerY |-> 2 * y - height,
        radius |-> 2 * Max2(width, 2 * height)]

findCalloutBubbles(textItems) ==
    LET refs == SelectSeq(textItems,
                    LAMBDA item : isStandaloneDetailReference(Trim(item.str)))
    IN [k \in 1 .. Len(refs) |-> BubbleRegion(refs[k])]

\* distance < radius is compared on the squares
isInsideBubble(x, y, width, height, bubbles) ==
    LET centerX == 2 * x + width
        centerY == 2 * y + height
    IN \E k \in 1 .. Len(bubbles) :
        LET bubble == bubbles[k]
            dx == centerX - bubble.centerX
            dy == centerY - bubble.centerY
        IN \/ /\ centerX >= bubble.x /\ centerX <= bubble.x + bubble.width
              /\ centerY >= bubble.y /\ centerY <= bubble.y + bubble.height
           \/ dx * dx + dy * dy < bubble.radius * bubble.radius

\* no item counts as inside a bubble
ItemNeverInsideBubble(item, bubbles) == FALSE

ItemInsideBubble(item, bubbles) ==
    isInsideBubble(At(item.transform, 4), At(item.transform, 5),
                   item.width, item.height, bubbles)

\* a pair counts as a false positive as soon as one text is short
EitherTextShort(item1, item2) ==
    Len(Trim(item1.str)) <= 2 \/ Len(Trim(item2.str)) <= 2

isFalsePositiveOverlap(item1, item2) ==
    Len(Trim(item1.str)) <= 2 /\ Len(Trim(item2.str)) <= 2

\* the two items' boxes overlap on both axes by more than 5 units
SignificantOverlap(item1, item2) ==
    LET x1 == At(item1.transform, 4)
        y1 == At(item1.transform, 5)
        x2 == At(item2.transform, 4)
        y2 == At(item2.transform, 5)
        horizontalOverlap == ~(x1 + item1.width < x2 \/ x2 + item2.width < x1)
        verticalOverlap == ~(y1 + item1.height < y2 \/ y2 + item2.height < y1)
        overlapWidth == Min2(x1 + item1.width, x2 + item2.width) - Max2(x1, x2)
        overlapHeight == Min2(y1 + item1.height, y2 + item2.height) - Max2(y1, y2)
    IN /\ horizontalOverlap /\ verticalOverlap
       /\ overlapWidth > 5 * Den /\ overlapHeight > 5 * Den

\* the region pushed for a pair of overlapping items
OverlapRegion(item1, item2, viewport) ==
    LET x1 == At(item1.transform, 4)
        y1 == At(item1.transform, 5)
        x2 == At(item2.transform, 4)
        y2 == At(item2.transform, 5)
        overlapX == Max2(x1, x2)
        overlapY == Max2(y1, y2)
        overlapWidth == Min2(x1 + item1.width, x2 + item2.width) - overlapX
        overlapHeight == Min2(y1 + item1.height, y2 + item2.height) - overlapY
        canvasXq == At(viewport.transform, 0) * overlapX
                        + At(viewport.transform, 4) * Den
        canvasYq == At(viewport.transform, 3) * overlapY
                        + At(viewport.transform, 5) * Den
        scaledHeight == Ceil(overlapHeight * viewport.scale, Den * Den)
    IN [x |-> Floor(canvasXq, Den * Den),
        y |-> Floor(canvasYq, Den * Den) - scaledHeight,
        width |-> Ceil(overlapWidth * viewport.scale, Den * Den),
        height |-> scaledHeight,
        text1 |-> item1.str,
        text2 |-> item2.str,
        pixelCount |-> Ceil(overlapWidth * overlapHeight
                                * viewport.scale * viewport.scale,
                            Den * Den * Den * Den),
        detectionMethod |-> "pdf-text",
        isCanvasCoords |-> TRUE]

\* the inner for-loop, from j on
RECURSIVE OverlapsInner(_, _, _, _, _, _)
OverlapsInner(textItems, bubbles, viewport, i, j, overlaps) ==
    IF j > Len(textItems) THEN overlaps
    ELSE LET item1 == textItems[i]
             item2 == textItems[j]
             push == /\ ~ItemInsideBubble(item2, bubbles)
                     /\ ~isFalsePositiveOverlap(item1, item2)
                     /\ SignificantOverlap(item1, item2)
         IN OverlapsInner(textItems, bubbles, viewport, i, j + 1,
                IF push THEN Append(overlaps, OverlapRegion(item1, item2, viewport))
                ELSE overlaps)

\* the outer for-loop, from i on
RECURSIVE OverlapsOuter(_, _, _, _, _)
OverlapsOuter(textItems, bubbles, viewport, i, overlaps) ==
    IF i > Len(textItems) THEN overlaps
    ELSE OverlapsOuter(textItems, bubbles, viewport, i + 1,
            IF ItemInsideBubble(textItems[i], bubbles) THEN overlaps
            ELSE OverlapsInner(textItems, bubbles, viewport, i, i + 1, overlaps))

detectOverlapsFromPDF(pdfPage) ==
    IF ~HasTextItems(pdfPage) THEN <<>>
    ELSE OverlapsOuter(SelectSeq(pdfPage.textItems, isLikelyText),
                       findCalloutBubbles(pdfPage.textItems),
                       pdfPage.viewport, 1, <<>>)

\* what the dual analyzer returns once both methods have run, and the
\* onProgress calls it made
OverlappingTextReturn(hasOnProgress, pdfElements, pixelElements) ==
    [result |->
        [detected |-> Len(pdfElements) + Len(pixelElements) > 0,
         count |-> Len(pdfElements) + Len(pixelElements),
         locations |-> pdfElements \o pixelElements,
         message |-> IF Len(pdfElements) + Len(pixelElements) > 0
                     THEN <<"Found ", Len(pdfElements) + Len(pixelElements),
                            " overlapping text region(s) (", Len(pdfElements),
                            " PDF, ", Len(pixelElements), " pixel)">>
                     ELSE <<"No overlapping text detected">>],
     progress |-> IF hasOnProgress
                  THEN <<Len(pdfElements) + Len(pixelElements)>> ELSE <<>>]

\* detectOverlappingText of the dual (pdf-text and pixel) analyzer;
\* imageData is the name of a catalogue image
detectOverlappingText(imageData, hasOnProgress, pdfPage) ==
    OverlappingTextReturn(hasOnProgress,
        IF HasTextItems(pdfPage) THEN detectOverlapsFromPDF(pdfPage) ELSE <<>>,
        FindElementsOf(imageData, "black"))

\* ------------------------------------------------------------------------
\* SpecText: one call of a text analyzer on a page of text items
\* ------------------------------------------------------------------------
MaxNoRefItems == 2
MaxOverlapItems == 2

Dashes(n) == [i \in 1 .. n |-> "-"]

\* a text item of pdf.js: its string, its transform [a, b, c, d, x, y] and
\* its size
TextItem(str, fontSize, x, y, width, height) ==
    [str |-> str, transform |-> <<fontSize, 0, 0, fontSize, x, y>>,
     width |-> width, height |-> height]

\* texts around the missing-reference pattern
NoRefTexts ==
    { Dashes(1) \o <<"/">> \o Dashes(3),
      Dashes(2) \o <<"/">> \o Dashes(4) \o <<".">>,
      Dashes(1) \o <<"/">> \o Dashes(1),
      Dashes(4) \o <<"/">> \o Dashes(4) \o <<":">>,
      Dashes(3) \o <<"/">> \o Dashes(2) \o <<",">>,
      Dashes(1) \o <<"/">> \o Dashes(3) \o <<";">>,
      <<" ", " ">> \o Dashes(1) \o <<"/">> \o Dashes(3) \o <<" ", "\n">>,
      <<"-", "\\", "-">>,
      Dashes(5) \o <<"/">> \o Dashes(1),
      Dashes(1) \o <<"/">> \o Dashes(5),
      <<"1">> \o <<"/">> \o Dashes(3),
      Dashes(1) \o <<"/">> \o Dashes(3) \o <<".", ".">>,
      Dashes(1) \o <<"/">>,
      <<"/">> \o Dashes(2),
      Dashes(1) \o <<" ", "/", " ">> \o Dashes(3) }

\* every text at one place, and the pattern's own example at a second place
\* with fractional position and size
NoRefItems ==
    { TextItem(str, 48, 400, 200, 80, 40) : str \in NoRefTexts }
    \cup { TextItem(Dashes(1) \o <<"/">> \o Dashes(3), 41, 41, 82, 50, 33) }

\* items that lie over each other, a detail reference with its bubble
\* number, and items too small to be text
OverlapItems ==
    { TextItem(<<"N", "O", "T", "E">>, 40, 40, 40, 160, 40),
      TextItem(<<"S", "E", "E">>, 40, 120, 56, 120, 40),
      TextItem(<<"S", "E", "E", " ">>, 42, 122, 57, 121, 42),
      TextItem(<<"A", "B">>, 40, 48, 48, 48, 40),
      TextItem(<<"3">>, 40, 56, 52, 24, 40),
      TextItem(<<"6", "3", "0", "S", "X", "0", "0", "1">>, 40, 400, 200, 192, 40),
      TextItem(<<"3">>, 40, 480, 216, 24, 40),
      TextItem(<<"N", "O", "T", "E">>, 40, 380, 218, 160, 40),
      TextItem(<<".">>, 40, 44, 44, 40, 40),
      TextItem(<<"N", "O", "T", "E">>, 12, 40, 40, 160, 40),
      TextItem(<<"D", "O", "T">>, 40, 40, 40, 160, 8) }

\* the viewport FileUpload renders with (scale 3) and one of scale 1.5 whose
\* transform has fractional offsets
Viewports ==
    { [transform |-> <<12, 0, 0, -12, 0, 1200>>, scale |-> 12],
      [transform |-> <<6, 0, 0, -6, 2, 601>>, scale |-> 6] }

RECURSIVE SeqsUpTo(_, _)
SeqsUpTo(S, n) ==
    IF n = 0 THEN { <<>> }
    ELSE LET shorter == SeqsUpTo(S, n - 1)
         IN shorter \cup { Append(s, e) : s \in shorter, e \in S }

PageOf(textItems, viewport) ==
    [isNull |-> FALSE, hasTextItems |-> TRUE, textItems |-> textItems,
     viewport |-> viewport]

\* a page object without a textItems field
PagesWithoutTextItems ==
    { [isNull |-> FALSE, hasTextItems |-> FALSE, viewport |-> v] : v \in Viewports }

\* pages of an image upload, and pages of reference callouts
NoRefPages ==
    {NullPage} \cup PagesWithoutTextItems
    \cup { PageOf(items, v) : items \in SeqsUpTo(NoRefItems, MaxNoRefItems),
                               v \in Viewports }

\* pages of notes printed over each other
OverlapPages ==
    { PageOf(items, v) : items \in SeqsUpTo(OverlapItems, MaxOverlapItems),
                         v \in Viewports }

NoResult == [detected |-> FALSE, count |-> 0, locations |-> <<>>, message |-> <<>>]

TextIdle ==
    /\ tAnalyzer = "none"
    /\ tPdfPage = NullPage
    /\ tImage = "blank"
    /\ tOnProgress = FALSE
    /\ tResult = NoResult
    /\ tProgress = <<>>
    /\ tPhase = "idle"

\* no analyzer has been called
NoCall ==
    [analyzer |-> "none", page |-> 0, imageData |-> "blank",
     hasOnProgress |-> FALSE, pdfPage |-> NullPage, promise |-> "none",
     imageEvent |-> "none", value |-> NoResult, progress |-> <<>>]

CallIdle == call = NoCall

Null == [isNull |-> TRUE]

\* the object handleFileUpload starts globalGeotechVerification with
NoGeotechVerification ==
    [detected |-> FALSE, count |-> 0, matches |-> <<>>, mismatches |-> <<>>,
     missing |-> <<>>]

NoCounts ==
    [redElements |-> 0, highlights |-> 0, noRefs |-> 0, overlappingText |-> 0,
     geotechVerification |-> 0]

NoLocals ==
    [redElements |-> NoResult, highlights |-> NoResult, noRefs |-> NoResult]

\* the component as useState initialises it, handleFileUpload not running
Mounted ==
    /\ pc = "idle"
    /\ pageNum = 0
    /\ calls = <<>>
    /\ awaited = 0
    /\ locals = NoLocals
    /\ allPageResults = <<>>
    /\ globalGeotechVerification = NoGeotechVerification
    /\ loading = FALSE
    /\ error = Null
    /\ results = Null
    /\ progress = [stage |-> <<>>, currentPage |-> 0, totalPages |-> 0,
                   pageResults |-> <<>>, currentCounts |-> NoCounts]
    /\ shownPages = Null
    /\ shownPdfPages = Null
    /\ processing = FALSE
    /\ file = Null
    /\ runs = <<>>

AppIdle ==
    /\ upload = [imagePages |-> <<>>, pdfPages |-> Null]
    /\ geotechData = FALSE
    /\ Mounted

TextInit ==
    /\ tAnalyzer = "none"
    /\ \/ tPdfPage \in NoRefPages /\ tImage = "blank"
       \/ tPdfPage \in OverlapPages /\ tImage \in {"blank", "overprinted", "twoLines"}
    /\ tOnProgress \in BOOLEAN
    /\ tResult = NoResult
    /\ tProgress = <<>>
    /\ tPhase = "input"

TextResolves(outcome) ==
    /\ tResult' = outcome.result
    /\ tProgress' = outcome.progress

\* await detectNoRefs(imageData, onProgress, pdfPage)
CallDetectNoRefs ==
    /\ tPhase = "input"
    /\ TextResolves(detectNoRefs(tOnProgress, tPdfPage))
    /\ tAnalyzer' = "noRefs"
    /\ tPhase' = "resolved"
    /\ UNCHANGED <<tPdfPage, tImage, tOnProgress>>
    /\ UNCHANGED notTextVars

\* await detectOverlappingText(imageData, onProgress, pdfPage)
CallDetectOverlappingText ==
    /\ tPhase = "input"
    /\ TextResolves(detectOverlappingText(tImage, tOnProgress, tPdfPage))
    /\ tAnalyzer' = "overlappingText"
    /\ tPhase' = "resolved"
    /\ UNCHANGED <<tPdfPage, tImage, tOnProgress>>
    /\ UNCHANGED notTextVars

TextNext == CallDetectNoRefs \/ CallDetectOverlappingText

InitText ==
    /\ MergeIdle
    /\ ScanIdle
    /\ CallIdle
    /\ TextInit
    /\ AppIdle
    /\ GeoIdle

SpecText == InitText /\ [][TextNext]_vars

\* ------------------------------------------------------------------------
\* SpecScan: one page scan, one seed position per step
\* ------------------------------------------------------------------------
SmallWidth == 3
SmallHeight == 2

InkOf(kind) ==
    CASE kind = "red" -> "red" [] kind = "highlight" -> "grey"
      [] kind = "black" -> "black"

\* every two-colour page of the small size, painted with the analyzer's ink
SmallImages(kind) ==
    { [width |-> SmallWidth, height |-> SmallHeight, data |-> d] :
        d \in [0 .. (SmallWidth * SmallHeight - 1) -> {"white", InkOf(kind)}] }

\* a white page with one solid red rectangle, its top left pixel at
\* <<x, y>>, width pixels wide and height pixels high
RectanglePage(x, y, width, height) ==
    Painted(x + width + 1, y + height + 1,
            [p \in (0 .. x + width) \X (0 .. y + height) |->
                IF p[1] \in x .. x + width - 1 /\ p[2] \in y .. y + height - 1
                THEN "red" ELSE "white"])

\* rectangles of more than 50 pixels at even and odd positions, of 50
\* pixels, and lines one pixel thin on and off the rows and columns the
\* scan samples
RectanglePages ==
    { RectanglePage(r[1], r[2], r[3], r[4]) :
        r \in { <<1, 1, 9, 6>>, <<2, 2, 6, 9>>, <<1, 2, 26, 2>>, <<3, 1, 2, 26>>,
                <<1, 1, 10, 5>>, <<2, 2, 51, 1>>, <<1, 1, 51, 1>>,
                <<1, 1, 1, 51>> } }

ScanInit ==
    /\ sKind \in Kinds
    /\ sImg \in SmallImages(sKind)
                \cup (IF sKind = "red" THEN RectanglePages ELSE {})
    /\ sSeed = 1
    /\ sVisited = {}
    /\ sElements = <<>>
    /\ sTraced = <<>>
    /\ sAddCalls = 0
    /\ sMerged = <<>>
    /\ sPhase = "scan"

ScanBecomes(s) ==
    /\ sVisited' = s.visited
    /\ sElements' = s.elements
    /\ sTraced' = s.traced
    /\ sAddCalls' = s.addCalls

ScanStep ==
    /\ sPhase = "scan"
    /\ sSeed <= NumSeeds(sImg, sKind)
    /\ ScanBecomes(ScanAt(sImg, sKind,
                           [visited |-> sVisited, elements |-> sElements,
                            traced |-> sTraced, addCalls |-> sAddCalls],
                           SeedAt(sImg, sKind, sSeed)))
    /\ sSeed' = sSeed + 1
    /\ UNCHANGED <<sKind, sImg, sMerged, sPhase>>
    /\ UNCHANGED notScanVars

ScanFinish ==
    /\ sPhase = "scan"
    /\ sSeed > NumSeeds(sImg, sKind)
    /\ sMerged' = MergerOf(sKind, sElements)
    /\ sPhase' = "done"
    /\ UNCHANGED <<sKind, sImg, sSeed, sVisited, sElements, sTraced, sAddCalls>>
    /\ UNCHANGED notScanVars

ScanNext == ScanStep \/ ScanFinish

InitScan ==
    /\ MergeIdle
    /\ TextIdle
    /\ CallIdle
    /\ ScanInit
    /\ AppIdle
    /\ GeoIdle

SpecScan == InitScan /\ [][ScanNext]_vars

\* ------------------------------------------------------------------------
\* SpecMerge: the merger applied to a list of boxes, then to its own output
\* ------------------------------------------------------------------------
MaxBoxes == 3

\* Boxes on a coarse grid chosen around the analyzer's merge distance d: the
\* columns are 30 apart and a box is 30-d or 29-d wide, so that the gap to
\* the next column is exactly d (merged) or d+1 (kept apart); the second row
\* has one column and starts exactly d below the boxes of the first row.
BoxPool(kind) ==
    LET d == MergeDistanceOf(kind)
    IN { [x |-> c[1], y |-> c[2], width |-> w, height |-> c[3],
          pixelCount |-> 60 + c[1] + c[2],
          detectionMethod |-> TracedMethodOf(kind),
          isCanvasCoords |-> TracedCanvasFlagOf(kind)] :
            c \in {<<0, 0, 40 - d>>, <<30, 0, 40 - d>>, <<60, 0, 40 - d>>,
                   <<30, 40, 5>>},
            w \in {30 - d, 29 - d} }

BoxLists(kind) ==
    UNION { [1..n -> BoxPool(kind)] : n \in 0..MaxBoxes }

MergeInit ==
    /\ mKind \in Kinds
    /\ mInput \in BoxLists(mKind)
    /\ mOut = <<>>
    /\ mOut2 = <<>>
    /\ mPhase = "input"

RunMerge ==
    /\ mPhase = "input"
    /\ mOut' = MergerOf(mKind, mInput)
    /\ mPhase' = "merged"
    /\ UNCHANGED <<mKind, mInput, mOut2>>
    /\ UNCHANGED notMergeVars

RunMergeAgain ==
    /\ mPhase = "merged"
    /\ mOut2' = MergerOf(mKind, mOut)
    /\ mPhase' = "remerged"
    /\ UNCHANGED <<mKind, mInput, mOut>>
    /\ UNCHANGED notMergeVars

MergeNext == RunMerge \/ RunMergeAgain

InitMerge ==
    /\ MergeInit
    /\ ScanIdle
    /\ TextIdle
    /\ CallIdle
    /\ AppIdle
    /\ GeoIdle

SpecMerge == InitMerge /\ [][MergeNext]_vars

\* ------------------------------------------------------------------------
\* SpecMergeLoop: the merger's while loop, one pass per step.  mOut holds
\* currentElements and mOut2 the list the last pass was handed.
\* ------------------------------------------------------------------------
\* if (elements.length === 0) return elements
ReturnEmpty ==
    /\ mPhase = "input"
    /\ Len(mInput) = 0
    /\ mOut' = mInput
    /\ mPhase' = "done"
    /\ UNCHANGED <<mKind, mInput, mOut2>>
    /\ UNCHANGED notMergeVars

\* let merged = true; let currentElements = [...elements]
EnterLoop ==
    /\ mPhase = "input"
    /\ Len(mInput) > 0
    /\ mOut' = mInput
    /\ mOut2' = mInput
    /\ mPhase' = "looping"
    /\ UNCHANGED <<mKind, mInput>>
    /\ UNCHANGED notMergeVars

\* one iteration of while (merged); the loop is left, and currentElements
\* returned, when the iteration merged nothing
OnePass ==
    /\ mPhase = "looping"
    /\ mOut' = MergePass(mOut, MergeDistanceOf(mKind)).newElements
    /\ mOut2' = mOut
    /\ mPhase' = IF MergePass(mOut, MergeDistanceOf(mKind)).merged
                 THEN "looping" ELSE "done"
    /\ UNCHANGED <<mKind, mInput>>
    /\ UNCHANGED notMergeVars

LoopNext == ReturnEmpty \/ EnterLoop \/ OnePass

SpecMergeLoop == InitMerge /\ [][LoopNext]_vars

\* the function runs on once it was called
FairSpecMergeLoop == SpecMergeLoop /\ WF_vars(LoopNext)

\* ------------------------------------------------------------------------
\* The analyzers that load the page image themselves: detectRedElements,
\* detectHighlights and the hybrid detectOverlappingText that App.jsx imports
\* ------------------------------------------------------------------------
\* imageData is a data URL: the name of a catalogue image when it decodes
Range(seq) == { seq[i] : i \in 1..Len(seq) }

Decodes(imageData) == imageData \in Range(ImageNames)

CanvasOf(imageData) == Catalogue[NumberOf(imageData)]

\* data[idx] is undefined past the array, and undefined < 80 is false
BlackAtIndex(img, k) ==
    /\ k \in DOMAIN img.data
    /\ isBlack(RGB(img.data[k])[1], RGB(img.data[k])[2], RGB(img.data[k])[3])

\* calculateDensity on a box that need not lie on the canvas: the black
\* cells and all cells of the box left of width and above height
BoxDensity(img, box) ==
    LET cells == (box.x .. (Min2(box.x + box.width, img.width) - 1))
                 \X (box.y .. (Min2(box.y + box.height, img.height) - 1))
    IN [black |-> Cardinality({ p \in cells :
                      BlackAtIndex(img, p[2] * img.width + p[1]) }),
        total |-> Cardinality(cells)]

\* the object pushed for a pair of items, in whole PDF units
CandidateRegion(item1, item2) ==
    LET x1 == At(item1.transform, 4)
        y1 == At(item1.transform, 5)
        x2 == At(item2.transform, 4)
        y2 == At(item2.transform, 5)
        overlapX == Max2(x1, x2)
        overlapY == Max2(y1, y2)
        overlapWidth == Min2(x1 + item1.width, x2 + item2.width) - overlapX
        overlapHeight == Min2(y1 + item1.height, y2 + item2.height) - overlapY
    IN [x |-> Floor(overlapX, Den),
        y |-> Floor(overlapY, Den),
        width |-> Ceil(overlapWidth, Den),
        height |-> Ceil(overlapHeight, Den),
        text1 |-> item1.str,
        text2 |-> item2.str,
        pixelCount |-> Ceil(overlapWidth * overlapHeight, Den * Den)]

\* the index pairs i < j in the order of the two for-loops
ItemPairs(n) ==
    SelectSeq([k \in 1 .. n * n |-> <<((k - 1) \div n) + 1, ((k - 1) % n) + 1>>],
              LAMBDA p : p[1] < p[2])

\* detectOverlapsFromPDF of the hybrid analyzer: no bubbles, no mapping
CandidateOverlaps(pdfPage) ==
    IF ~HasTextItems(pdfPage) THEN <<>>
    ELSE LET textItems == SelectSeq(pdfPage.textItems, isLikelyText)
             pairs == SelectSeq(ItemPairs(Len(textItems)),
                        LAMBDA p : SignificantOverlap(textItems[p[1]],
                                                      textItems[p[2]]))
         IN [k \in 1 .. Len(pairs) |->
                CandidateRegion(textItems[pairs[k][1]], textItems[pairs[k][2]])]

\* scaledOverlap, with scaleX = canvas.width / viewport.width and
\* scaleY = canvas.height / viewport.height
ScaledOverlap(overlap, canvas, viewport) ==
    [x |-> Floor(overlap.x * canvas.width, viewport.width),
     y |-> Floor(canvas.height * viewport.height
                   - (overlap.y + overlap.height) * canvas.height,
                 viewport.height),
     width |-> Ceil(overlap.width * canvas.width, viewport.width),
     height |-> Ceil(overlap.height * canvas.height, viewport.height),
     text1 |-> overlap.text1,
     text2 |-> overlap.text2,
     pixelCount |-> overlap.pixelCount]

\* {...scaledOverlap, density, detectionMethod: 'hybrid'}; the density is
\* kept as the two counts it is the quotient of
HybridElement(scaledOverlap, density) ==
    [x |-> scaledOverlap.x, y |-> scaledOverlap.y,
     width |-> scaledOverlap.width, height |-> scaledOverlap.height,
     text1 |-> scaledOverlap.text1, text2 |-> scaledOverlap.text2,
     pixelCount |-> scaledOverlap.pixelCount,
     density |-> density, detectionMethod |-> "hybrid"]

\* density > 0.4 (false for the NaN of an empty box) and a text-sized box
Verified(element) ==
    /\ element.density.total > 0
    /\ 10 * element.density.black > 4 * element.density.total
    /\ element.width > 20
    /\ element.height > 8
    /\ element.height < 40

\* the for-loop over pdfOverlaps: the elements it pushes
VerifiedOverlaps(canvas, viewport, pdfOverlaps) ==
    SelectSeq([k \in 1 .. Len(pdfOverlaps) |->
                  HybridElement(ScaledOverlap(pdfOverlaps[k], canvas, viewport),
                      BoxDensity(canvas,
                          ScaledOverlap(pdfOverlaps[k], canvas, viewport)))],
              Verified)

\* the regions the tracer of the hybrid analyzer returns carry box and
\* pixel count only
Untagged(elements) ==
    [k \in 1 .. Len(elements) |->
        [x |-> elements[k].x, y |-> elements[k].y,
         width |-> elements[k].width, height |-> elements[k].height,
         pixelCount |-> elements[k].pixelCount]]

\* the for-loop over pixelElements, from the k-th on: an element within 50
\* pixels of one already in the list is dropped
RECURSIVE AddPixelElements(_, _, _)
AddPixelElements(elements, pixelElements, k) ==
    IF k > Len(pixelElements) THEN elements
    ELSE AddPixelElements(
            IF \E n \in 1 .. Len(elements) :
                  /\ Abs(elements[n].x - pixelElements[k].x) < 50
                  /\ Abs(elements[n].y - pixelElements[k].y) < 50
            THEN elements
            ELSE Append(elements, pixelElements[k]),
            pixelElements, k + 1)

\* the resolved object with the count taken before the duplicates are
\* dropped, as the two-method analyzer counts
HybridReturnCountingAll(hasOnProgress, verified, pixelElements, elements) ==
    [result |->
        [detected |-> Len(verified) + Len(pixelElements) > 0,
         count |-> Len(verified) + Len(pixelElements),
         locations |-> elements,
         message |-> IF Len(verified) + Len(pixelElements) = 0
                     THEN <<"No overlapping text detected">>
                     ELSE <<"Found ", Len(verified) + Len(pixelElements),
                            " overlapping text region(s)">>],
     progress |-> IF hasOnProgress
                  THEN [k \in 1 .. Len(verified) |-> k] \o <<Len(pixelElements)>>
                  ELSE <<>>]

\* what the onload handler of the hybrid analyzer leaves: the object it
\* resolves with, and the counts onProgress was called with (once per
\* verified overlap, once by findOverlappingTextWithProgress)
HybridReturn(hasOnProgress, verified, pixelElements, elements) ==
    [result |->
        [detected |-> Len(elements) > 0,
         count |-> Len(elements),
         locations |-> elements,
         message |->
            IF Len(elements) = 0 THEN <<"No overlapping text detected">>
            ELSE IF \E n \in 1 .. Len(elements) :
                       /\ "text1" \in DOMAIN elements[n]
                       /\ Len(elements[n].text1) > 0
                       /\ Len(elements[n].text2) > 0
                 THEN <<"Found ", Len(elements),
                        " overlapping text region(s) with text content">>
                 ELSE <<"Found ", Len(elements), " overlapping text region(s)">>],
     progress |-> IF hasOnProgress
                  THEN [k \in 1 .. Len(verified) |-> k] \o <<Len(pixelElements)>>
                  ELSE <<>>]

HybridMerged(hasOnProgress, verified, pixelElements) ==
    HybridReturn(hasOnProgress, verified, pixelElements,
                 AddPixelElements(verified, pixelElements, 1))

PixelOnly(hasOnProgress, pixelElements) ==
    HybridReturn(hasOnProgress, <<>>, pixelElements, pixelElements)

\* img.onload of the hybrid detectOverlappingText
OverlappingTextLoaded(imageData, hasOnProgress, pdfPage) ==
    IF HasTextItems(pdfPage)
    THEN HybridMerged(hasOnProgress,
            VerifiedOverlaps(CanvasOf(imageData), pdfPage.viewport,
                             CandidateOverlaps(pdfPage)),
            Untagged(FindElementsOf(imageData, "black")))
    ELSE PixelOnly(hasOnProgress, Untagged(FindElementsOf(imageData, "black")))

RedElementsReturn(hasOnProgress, elements) ==
    [result |->
        [detected |-> Len(elements) > 0,
         count |-> Len(elements),
         locations |-> elements,
         message |-> IF Len(elements) > 0
                     THEN <<"Found ", Len(elements), " red element(s)">>
                     ELSE <<"No red elements detected">>],
     progress |-> IF hasOnProgress THEN <<Len(elements)>> ELSE <<>>]

\* img.onload of detectRedElements, when nothing in it throws
RedElementsLoaded(imageData, hasOnProgress) ==
    RedElementsReturn(hasOnProgress, FindElementsOf(imageData, "red"))

HighlightsReturn(hasOnProgress, elements) ==
    [result |->
        [detected |-> Len(elements) > 0,
         count |-> Len(elements),
         locations |-> elements,
         message |-> IF Len(elements) > 0
                     THEN <<"Found ", Len(elements), " highlighted area(s)">>
                     ELSE <<"No highlights detected">>],
     progress |-> IF hasOnProgress THEN <<Len(elements)>> ELSE <<>>]

\* img.onload of detectHighlights
HighlightsLoaded(imageData, hasOnProgress) ==
    HighlightsReturn(hasOnProgress, FindElementsOf(imageData, "highlight"))

\* ------------------------------------------------------------------------
\* Analyzer calls and their promises
\* ------------------------------------------------------------------------
\* new Image(), img.src = imageData, return new Promise(...): the promise is
\* pending and the image's load or error event is still to come
ImageCall(analyzer, page, imageData, hasOnProgress, pdfPage) ==
    [analyzer |-> analyzer, page |-> page, imageData |-> imageData,
     hasOnProgress |-> hasOnProgress, pdfPage |-> pdfPage,
     promise |-> "pending", imageEvent |-> "queued",
     value |-> NoResult, progress |-> <<>>]

Resolved(c, outcome) ==
    [c EXCEPT !.promise = "resolved", !.value = outcome.result,
              !.progress = outcome.progress]

\* reject(new Error(message))
Rejected(c, message) ==
    [c EXCEPT !.promise = "rejected", !.value = [message |-> message]]

detectRedElements(page, imageData, hasOnProgress) ==
    ImageCall("redElements", page, imageData, hasOnProgress, NullPage)

detectHighlights(page, imageData, hasOnProgress) ==
    ImageCall("highlights", page, imageData, hasOnProgress, NullPage)

detectOverlappingTextHybrid(page, imageData, hasOnProgress, pdfPage) ==
    ImageCall("overlappingText", page, imageData, hasOnProgress, pdfPage)

\* an async function without an await: its promise is resolved on return
NoRefsCall(page, imageData, hasOnProgress, pdfPage) ==
    Resolved([analyzer |-> "noRefs", page |-> page, imageData |-> imageData,
              hasOnProgress |-> hasOnProgress, pdfPage |-> pdfPage,
              promise |-> "pending", imageEvent |-> "none",
              value |-> NoResult, progress |-> <<>>],
             detectNoRefs(hasOnProgress, pdfPage))

\* the two-method detectOverlappingText, which is handed the decoded pixels
DualCall(page, imageData, hasOnProgress, pdfPage) ==
    Resolved([analyzer |-> "overlappingTextDual", page |-> page,
              imageData |-> imageData, hasOnProgress |-> hasOnProgress,
              pdfPage |-> pdfPage, promise |-> "pending",
              imageEvent |-> "none", value |-> NoResult, progress |-> <<>>],
             detectOverlappingText(imageData, hasOnProgress, pdfPage))

\* img.onload ran to its end
OnLoad(c) ==
    CASE c.analyzer = "redElements" ->
            Resolved([c EXCEPT !.imageEvent = "load"],
                     RedElementsLoaded(c.imageData, c.hasOnProgress))
      [] c.analyzer = "highlights" ->
            Resolved([c EXCEPT !.imageEvent = "load"],
                     HighlightsLoaded(c.imageData, c.hasOnProgress))
      [] c.analyzer = "overlappingText" ->
            Resolved([c EXCEPT !.imageEvent = "load"],
                     OverlappingTextLoaded(c.imageData, c.hasOnProgress, c.pdfPage))

\* a canvas call threw inside img.onload: detectRedElements catches and
\* rejects, the other two handlers let the exception escape and leave the
\* promise as it is
OnLoadThrew(c) ==
    IF c.analyzer = "redElements"
    THEN Rejected([c EXCEPT !.imageEvent = "threw"],
                  <<"Red elements detection failed: ", "canvas">>)
    ELSE [c EXCEPT !.imageEvent = "threw"]

\* the image's error event: only detectRedElements has set img.onerror
OnError(c) ==
    IF c.analyzer = "redElements"
    THEN Rejected([c EXCEPT !.imageEvent = "error"],
                  <<"Failed to load image for red elements detection">>)
    ELSE [c EXCEPT !.imageEvent = "error"]

\* ------------------------------------------------------------------------
\* SpecCalls: one direct call of an analyzer, from the call to the settling
\* of its promise
\* ------------------------------------------------------------------------
MaxCallItems == 2

\* data URLs: those of the catalogue's images and one that does not decode
DataUrls == Range(ImageNames) \cup {"corrupt"}

\* the viewport of a page that processPDF rendered at scale 3 to a canvas of
\* the image's size
CanvasViewport(imageData) ==
    [transform |-> <<3 * Den, 0, 0, -3 * Den, 0, CanvasOf(imageData).height * Den>>,
     scale |-> 3 * Den,
     width |-> CanvasOf(imageData).width,
     height |-> CanvasOf(imageData).height]

\* a placeholder callout, two notes printed over each other in the box
\* (0, 2) 22 x 9 of PDF space, and a label that only touches them
CallItems ==
    { TextItem(Dashes(1) \o <<"/">> \o Dashes(3), 40, 8, 8, 40, 12),
      TextItem(<<"N", "O", "T", "E">>, 40, 0, 8, 88, 36),
      TextItem(<<"S", "E", "E">>, 40, 0, 8, 88, 36),
      TextItem(<<"A", "B">>, 40, 80, 8, 24, 36) }

\* the pdfPage arguments that go with an image: none, one without text
\* items, and pages rendered to the image's canvas
CallPages(imageData) ==
    {NullPage} \cup PagesWithoutTextItems
    \cup { PageOf(items, CanvasViewport(IF Decodes(imageData) THEN imageData
                                        ELSE "blank")) :
             items \in SeqsUpTo(CallItems, MaxCallItems) }

CallInit == call = NoCall

CallRedElements ==
    /\ call.promise = "none"
    /\ \E imageData \in DataUrls, hasOnProgress \in BOOLEAN :
          call' = detectRedElements(0, imageData, hasOnProgress)
    /\ UNCHANGED notCallVars

CallHighlights ==
    /\ call.promise = "none"
    /\ \E imageData \in DataUrls, hasOnProgress \in BOOLEAN :
          call' = detectHighlights(0, imageData, hasOnProgress)
    /\ UNCHANGED notCallVars

CallNoRefs ==
    /\ call.promise = "none"
    /\ \E imageData \in DataUrls, hasOnProgress \in BOOLEAN :
          \E pdfPage \in CallPages(imageData) :
              call' = NoRefsCall(0, imageData, hasOnProgress, pdfPage)
    /\ UNCHANGED notCallVars

CallOverlappingTextDual ==
    /\ call.promise = "none"
    /\ \E imageData \in Range(ImageNames), hasOnProgress \in BOOLEAN :
          \E pdfPage \in CallPages(imageData) :
              call' = DualCall(0, imageData, hasOnProgress, pdfPage)
    /\ UNCHANGED notCallVars

CallOverlappingTextHybrid ==
    /\ call.promise = "none"
    /\ \E imageData \in DataUrls, hasOnProgress \in BOOLEAN :
          \E pdfPage \in CallPages(imageData) :
              call' = detectOverlappingTextHybrid(0, imageData, hasOnProgress,
                                                  pdfPage)
    /\ UNCHANGED notCallVars

\* the image decoded: its load event runs img.onload
ImageLoaded ==
    /\ call.promise = "pending"
    /\ call.imageEvent = "queued"
    /\ Decodes(call.imageData)
    /\ call' = OnLoad(call)
    /\ UNCHANGED notCallVars

\* the image decoded, and a canvas call in img.onload throws
ImageLoadThrew ==
    /\ call.promise = "pending"
    /\ call.imageEvent = "queued"
    /\ Decodes(call.imageData)
    /\ call' = OnLoadThrew(call)
    /\ UNCHANGED notCallVars

\* the image did not decode: its error event is dispatched
ImageFailed ==
    /\ call.promise = "pending"
    /\ call.imageEvent = "queued"
    /\ ~Decodes(call.imageData)
    /\ call' = OnError(call)
    /\ UNCHANGED notCallVars

CallNext ==
    \/ CallRedElements
    \/ CallHighlights
    \/ CallNoRefs
    \/ CallOverlappingTextDual
    \/ CallOverlappingTextHybrid
    \/ ImageLoaded
    \/ ImageLoadThrew
    \/ ImageFailed

InitCalls ==
    /\ MergeIdle
    /\ ScanIdle
    /\ TextIdle
    /\ CallInit
    /\ AppIdle
    /\ GeoIdle

SpecCalls == InitCalls /\ [][CallNext]_vars

\* ------------------------------------------------------------------------
\* Spec: App.jsx, handleFileUpload on one uploaded document
\* ------------------------------------------------------------------------
MaxPages == 2

\* rendered pages: the canvas image and the text items of the page
Sheets ==
    { <<"blank", <<>> >>,
      <<"redStamp", << TextItem(Dashes(1) \o <<"/">> \o Dashes(3), 40, 8, 8, 40, 12) >> >>,
      <<"highlighted", <<>> >>,
      <<"overprinted", << TextItem(<<"N", "O", "T", "E">>, 40, 0, 8, 88, 36),
                          TextItem(<<"S", "E", "E">>, 40, 0, 8, 88, 36) >> >> }

\* what processPDF hands to onFileProcessed
PdfUpload(sheets) ==
    [imagePages |-> [k \in 1 .. Len(sheets) |-> sheets[k][1]],
     pdfPages |->
        [isNull |-> FALSE,
         pages |-> [k \in 1 .. Len(sheets) |->
                      PageOf(sheets[k][2], CanvasViewport(sheets[k][1]))]]]

\* what an image file gives: { imagePages: [imageData], pdfPages: null }
ImageUpload(imageData) == [imagePages |-> <<imageData>>, pdfPages |-> Null]

Uploads ==
    { ImageUpload(imageData) : imageData \in DataUrls }
    \cup { PdfUpload(sheets) : sheets \in SeqsUpTo(Sheets, MaxPages) \ { <<>> } }

\* result.pdfPages ? result.pdfPages[i] : null
PdfPageAt(result, n) ==
    IF result.pdfPages.isNull THEN NullPage ELSE result.pdfPages.pages[n]

\* detectGeotechMismatches is not computed here: it returns without an
\* await, either before it has counted (no notes section found) or with a
\* count it has reported to onProgress
GeotechOutcomes ==
    { [result |-> [detected |-> FALSE, count |-> 0, matches |-> <<>>,
                   mismatches |-> <<>>, missing |-> <<>>,
                   message |-> <<"GENERAL NOTES section not found in drawing">>],
       progress |-> <<>>],
      [result |-> [detected |-> TRUE, count |-> 1, matches |-> <<>>,
                   mismatches |-> <<"Sds">>, missing |-> <<>>,
                   message |-> <<"Found ", 1, " mismatch(es) and ", 0,
                                 " missing value(s)">>],
       progress |-> <<1>>] }

GeotechCall(outcome) ==
    Resolved([analyzer |-> "geotechVerification", page |-> 0,
              imageData |-> "blank", hasOnProgress |-> TRUE,
              pdfPage |-> NullPage, promise |-> "pending",
              imageEvent |-> "none", value |-> NoResult, progress |-> <<>>],
             outcome)

\* the setProgress of lines 65-77
FileProgress(total) ==
    [stage |-> <<"Analyzing ", total, IF total # 1 THEN " pages..." ELSE " page...">>,
     currentPage |-> 0, totalPages |-> total, pageResults |-> <<>>,
     currentCounts |-> NoCounts]

\* the setProgress at the top of the loop body
PageStarted(p, n, total) ==
    [p EXCEPT !.stage = <<"Analyzing page ", n, "/", total, "...">>,
              !.currentPage = n,
              !.currentCounts = NoCounts]

\* the onProgress callbacks the call c has made: each sets the analyzer's
\* entry of currentCounts
Counted(p, c) ==
    IF Len(c.progress) = 0 THEN p
    ELSE [p EXCEPT !.currentCounts[c.analyzer] = c.progress[Len(c.progress)]]

\* a loop body that calls detectHighlights without waiting for
\* detectRedElements
StartedWithNext(cs, c) ==
    IF c.analyzer = "redElements"
    THEN cs \o <<c, detectHighlights(c.page, c.imageData, TRUE)>>
    ELSE Append(cs, c)

\* the calls made once the analyzer call c has been made
Started(cs, c) == Append(cs, c)

\* an error state that does not say what failed
GenericErrorMessage(message) == <<"Error processing file">>

\* `Error processing file: ${error.message}`
ErrorMessage(message) == <<"Error processing file: ">> \o message

\* setPages(result.imagePages)
PagesOf(result) == [isNull |-> FALSE, images |-> result.imagePages]

AppInit ==
    /\ upload \in Uploads
    /\ geotechData \in BOOLEAN
    /\ Mounted

\* the analyzer call c is made and awaited
Call(c, at, p) ==
    /\ calls' = Started(calls, c)
    /\ awaited' = Len(calls) + 1
    /\ pc' = at
    /\ progress' = Counted(p, c)

\* the loop body of page n up to its first await
StartPage(n, p) ==
    /\ pageNum' = n
    /\ Call(detectRedElements(n, upload.imagePages[n], TRUE), "redElements",
            PageStarted(p, n, Len(upload.imagePages)))

\* handleFileUpload from its first line to its first await
HandleFileUpload ==
    /\ pc = "idle"
    /\ loading' = TRUE
    /\ error' = Null
    /\ results' = Null
    /\ shownPages' = PagesOf(upload)
    /\ shownPdfPages' = upload.pdfPages
    /\ allPageResults' = <<>>
    /\ locals' = NoLocals
    /\ globalGeotechVerification' = NoGeotechVerification
    /\ IF geotechData /\ ~upload.pdfPages.isNull
       THEN \E outcome \in GeotechOutcomes :
              /\ pageNum' = 0
              /\ Call(GeotechCall(outcome), "geotechVerification",
                      FileProgress(Len(upload.imagePages)))
       ELSE StartPage(1, FileProgress(Len(upload.imagePages)))
    /\ UNCHANGED <<upload, geotechData>>
    /\ UNCHANGED notAppVars

\* an image event of the k-th call has been handled and left the call as c
ImageEvent(k, c) ==
    /\ calls' = [calls EXCEPT ![k] = c]
    /\ progress' = Counted(progress, c)
    /\ UNCHANGED <<upload, geotechData, pc, pageNum, awaited, locals,
                   allPageResults, globalGeotechVerification, loading, error,
                   results, shownPages, shownPdfPages>>
    /\ UNCHANGED notAppVars

ImageLoads ==
    \E k \in 1 .. Len(calls) :
        /\ calls[k].promise = "pending"
        /\ calls[k].imageEvent = "queued"
        /\ Decodes(calls[k].imageData)
        /\ ImageEvent(k, OnLoad(calls[k]))

ImageLoadThrows ==
    \E k \in 1 .. Len(calls) :
        /\ calls[k].promise = "pending"
        /\ calls[k].imageEvent = "queued"
        /\ Decodes(calls[k].imageData)
        /\ ImageEvent(k, OnLoadThrew(calls[k]))

ImageFails ==
    \E k \in 1 .. Len(calls) :
        /\ calls[k].promise = "pending"
        /\ calls[k].imageEvent = "queued"
        /\ ~Decodes(calls[k].imageData)
        /\ ImageEvent(k, OnError(calls[k]))

\* catch (error) and finally
Catch(message) ==
    /\ error' = [isNull |-> FALSE, message |-> ErrorMessage(message)]
    /\ loading' = FALSE
    /\ pc' = "done"
    /\ awaited' = 0
    /\ UNCHANGED <<pageNum, calls, locals, allPageResults,
                   globalGeotechVerification, results, progress>>

PageResult(overlappingText) ==
    [pageNumber |-> pageNum,
     redElements |-> locals.redElements,
     highlights |-> locals.highlights,
     noRefs |-> locals.noRefs,
     overlappingText |-> overlappingText,
     geotechVerification |->
        IF pageNum = 1 THEN globalGeotechVerification
        ELSE NoGeotechVerification]

PageCounts(pageResult) ==
    [pageNumber |-> pageResult.pageNumber,
     redElements |-> pageResult.redElements.count,
     highlights |-> pageResult.highlights.count,
     noRefs |-> pageResult.noRefs.count,
     overlappingText |-> pageResult.overlappingText.count,
     geotechVerification |-> pageResult.geotechVerification.count]

\* the end of the loop body, and what follows it: the next page, or the end
\* of the try block and finally
PageDone(pageResult) ==
    /\ allPageResults' = Append(allPageResults, pageResult)
    /\ IF pageNum < Len(upload.imagePages)
       THEN /\ StartPage(pageNum + 1,
                         [progress EXCEPT
                            !.pageResults = Append(@, PageCounts(pageResult))])
            /\ UNCHANGED <<loading, error, results>>
       ELSE /\ results' = [isNull |-> FALSE,
                           pages |-> Append(allPageResults, pageResult)]
            /\ progress' = [progress EXCEPT
                              !.pageResults = Append(@, PageCounts(pageResult)),
                              !.stage = <<"Analysis complete!">>]
            /\ loading' = FALSE
            /\ pc' = "done"
            /\ awaited' = 0
            /\ UNCHANGED <<pageNum, calls, error>>
    /\ UNCHANGED <<locals, globalGeotechVerification>>

\* the code after an await whose promise resolved with value
Continue(value) ==
    \/ /\ pc = "geotechVerification"
       /\ globalGeotechVerification' = value
       /\ StartPage(1, progress)
       /\ UNCHANGED <<locals, allPageResults, loading, error, results>>
    \/ /\ pc = "redElements"
       /\ locals' = [locals EXCEPT !.redElements = value]
       /\ Call(detectHighlights(pageNum, upload.imagePages[pageNum], TRUE),
               "highlights", progress)
       /\ UNCHANGED <<pageNum, allPageResults, globalGeotechVerification,
                      loading, error, results>>
    \/ /\ pc = "highlights"
       /\ locals' = [locals EXCEPT !.highlights = value]
       /\ Call(NoRefsCall(pageNum, upload.imagePages[pageNum], TRUE,
                          PdfPageAt(upload, pageNum)),
               "noRefs", progress)
       /\ UNCHANGED <<pageNum, allPageResults, globalGeotechVerification,
                      loading, error, results>>
    \/ /\ pc = "noRefs"
       /\ locals' = [locals EXCEPT !.noRefs = value]
       /\ Call(detectOverlappingTextHybrid(pageNum, upload.imagePages[pageNum],
                                           TRUE, PdfPageAt(upload, pageNum)),
               "overlappingText", progress)
       /\ UNCHANGED <<pageNum, allPageResults, globalGeotechVerification,
                      loading, error, results>>
    \/ /\ pc = "overlappingText"
       /\ PageDone(PageResult(value))

\* handleFileUpload resumes after the await whose promise has settled
Resume ==
    /\ pc \notin {"idle", "done"}
    /\ awaited \in 1 .. Len(calls)
    /\ calls[awaited].promise \in {"resolved", "rejected"}
    /\ IF calls[awaited].promise = "rejected"
       THEN Catch(calls[awaited].value.message)
       ELSE Continue(calls[awaited].value)
    /\ UNCHANGED <<upload, geotechData, shownPages, shownPdfPages>>
    /\ UNCHANGED notAppVars

Next ==
    \/ HandleFileUpload
    \/ ImageLoads
    \/ ImageLoadThrows
    \/ ImageFails
    \/ Resume

Init ==
    /\ MergeIdle
    /\ ScanIdle
    /\ TextIdle
    /\ CallIdle
    /\ AppInit
    /\ GeoIdle

Spec == Init /\ [][Next]_vars

\* a settled promise's continuation is a queued microtask: it runs
FairSpec == Spec /\ WF_vars(Resume)

\* ------------------------------------------------------------------------
\* SpecUploads: FileUpload's handleFileChange and the runs of
\* handleFileUpload it starts. A step is one task of the event loop: the
\* continuations of promises that are already settled run within it
\* ------------------------------------------------------------------------
MaxUploads == 2

\* an image and a one-page document of the same drawing, an image that does
\* not decode, and a document of two pages
ChosenFiles ==
    { u \in Uploads :
        u.imagePages \in { <<"redStamp">>, <<"corrupt">>,
                           <<"overprinted", "highlighted">> } }

\* the state of App that handleFileUpload sets
AppState ==
    [loading |-> loading, error |-> error, results |-> results,
     progress |-> progress, shownPages |-> shownPages,
     shownPdfPages |-> shownPdfPages]

\* a run of handleFileUpload suspended at an await, or past its finally
Suspended(run) == run.pc = "done" \/ run.call.promise = "pending"

InProgress(run) == run.pc # "done"

\* the run makes the analyzer call c and awaits it
Await(st, c, at) ==
    [run |-> [st.run EXCEPT !.call = c, !.pc = at],
     app |-> [st.app EXCEPT !.progress = Counted(@, c)]]

\* the loop body of page n up to its first await
EnterPage(st, n) ==
    Await([st EXCEPT !.run.pageNum = n,
                     !.app.progress =
                        PageStarted(@, n, Len(st.run.result.imagePages))],
          detectRedElements(n, st.run.result.imagePages[n], TRUE),
          "redElements")

\* catch (error) and finally
RunCaught(st, message) ==
    [run |-> [st.run EXCEPT !.pc = "done"],
     app |-> [st.app EXCEPT
                !.error = [isNull |-> FALSE, message |-> ErrorMessage(message)],
                !.loading = FALSE]]

RunPageResult(run, overlappingText) ==
    [pageNumber |-> run.pageNum,
     redElements |-> run.locals.redElements,
     highlights |-> run.locals.highlights,
     noRefs |-> run.locals.noRefs,
     overlappingText |-> overlappingText,
     geotechVerification |->
        IF run.pageNum = 1 THEN run.globalGeotechVerification
        ELSE NoGeotechVerification]

\* the end of the loop body, and what follows it: the next page, or
\* setResults and finally
RunPageDone(st, pageResult) ==
    LET counted == [st EXCEPT
                      !.run.allPageResults = Append(@, pageResult),
                      !.app.progress.pageResults =
                          Append(@, PageCounts(pageResult))]
    IN IF st.run.pageNum < Len(st.run.result.imagePages)
       THEN EnterPage(counted, st.run.pageNum + 1)
       ELSE [counted EXCEPT
               !.run.pc = "done",
               !.app.results = [isNull |-> FALSE,
                                pages |-> counted.run.allPageResults],
               !.app.progress.stage = <<"Analysis complete!">>,
               !.app.loading = FALSE]

\* the code after the await of the run, whose promise has settled
AfterAwait(st) ==
    LET run == st.run
        value == run.call.value
        pageData == run.result.imagePages[run.pageNum]
    IN IF run.call.promise = "rejected" THEN RunCaught(st, value.message)
       ELSE CASE run.pc = "geotechVerification" ->
                   EnterPage([st EXCEPT !.run.globalGeotechVerification = value], 1)
              [] run.pc = "redElements" ->
                   Await([st EXCEPT !.run.locals.redElements = value],
                         detectHighlights(run.pageNum, pageData, TRUE),
                         "highlights")
              [] run.pc = "highlights" ->
                   Await([st EXCEPT !.run.locals.highlights = value],
                         NoRefsCall(run.pageNum, pageData, TRUE,
                                    PdfPageAt(run.result, run.pageNum)),
                         "noRefs")
              [] run.pc = "noRefs" ->
                   Await([st EXCEPT !.run.locals.noRefs = value],
                         detectOverlappingTextHybrid(
                             run.pageNum, pageData, TRUE,
                             PdfPageAt(run.result, run.pageNum)),
                         "overlappingText")
              [] run.pc = "overlappingText" ->
                   RunPageDone(st, RunPageResult(run, value))

\* the run goes on until it awaits a promise that is still pending
RECURSIVE RunOn(_)
RunOn(st) == IF Suspended(st.run) THEN st ELSE RunOn(AfterAwait(st))

\* handleFileUpload(result) from its first line to its first await
Begin(result, outcome) ==
    LET st == [run |-> [result |-> result, pc |-> "start", pageNum |-> 0,
                        call |-> GeotechCall(outcome), locals |-> NoLocals,
                        allPageResults |-> <<>>,
                        globalGeotechVerification |-> NoGeotechVerification],
               app |-> [loading |-> TRUE, error |-> Null, results |-> Null,
                        progress |-> FileProgress(Len(result.imagePages)),
                        shownPages |-> PagesOf(result),
                        shownPdfPages |-> result.pdfPages]]
    IN IF geotechData /\ ~result.pdfPages.isNull
       THEN Await(st, GeotechCall(outcome), "geotechVerification")
       ELSE EnterPage(st, 1)

\* the setters' effect on the component
SetApp(app) ==
    /\ loading' = app.loading
    /\ error' = app.error
    /\ results' = app.results
    /\ progress' = app.progress
    /\ shownPages' = app.shownPages
    /\ shownPdfPages' = app.shownPdfPages

notUploadVars ==
    <<mergeVars, scanVars, textVars, call, geo, upload, geotechData, pc,
      pageNum, calls, awaited, locals, allPageResults,
      globalGeotechVerification>>

\* handleFileChange up to its first await: the input is enabled and a file
\* of a supported type is chosen
FileChosen ==
    /\ ~processing
    /\ Len(runs) < MaxUploads
    /\ \E result \in ChosenFiles : file' = [isNull |-> FALSE, result |-> result]
    /\ processing' = TRUE
    /\ UNCHANGED <<runs, loading, error, results, progress, shownPages,
                   shownPdfPages>>
    /\ UNCHANGED notUploadVars

\* the file has been read: onFileProcessed(result) is called and not
\* awaited, and finally enables the input
FileProcessed ==
    /\ processing
    /\ \E outcome \in GeotechOutcomes :
         LET st == RunOn(Begin(file.result, outcome))
         IN /\ runs' = Append(runs, st.run)
            /\ SetApp(st.app)
    /\ processing' = FALSE
    /\ file' = Null
    /\ UNCHANGED notUploadVars

\* reading the file failed: catch alerts, finally enables the input
FileReadFails ==
    /\ processing
    /\ processing' = FALSE
    /\ file' = Null
    /\ UNCHANGED <<runs, loading, error, results, progress, shownPages,
                   shownPdfPages>>
    /\ UNCHANGED notUploadVars

\* an image event of the call that run r awaits has been handled and left
\* the call as c; the run resumes if that settled the promise
RunImageEvent(r, c) ==
    LET st == RunOn([run |-> [runs[r] EXCEPT !.call = c],
                     app |-> [AppState EXCEPT !.progress = Counted(@, c)]])
    IN /\ runs' = [runs EXCEPT ![r] = st.run]
       /\ SetApp(st.app)
       /\ UNCHANGED <<processing, file>>
       /\ UNCHANGED notUploadVars

AwaitsImage(r) ==
    /\ InProgress(runs[r])
    /\ runs[r].call.promise = "pending"
    /\ runs[r].call.imageEvent = "queued"

RunImageLoads ==
    \E r \in 1 .. Len(runs) :
        /\ AwaitsImage(r)
        /\ Decodes(runs[r].call.imageData)
        /\ RunImageEvent(r, OnLoad(runs[r].call))

RunImageLoadThrows ==
    \E r \in 1 .. Len(runs) :
        /\ AwaitsImage(r)
        /\ Decodes(runs[r].call.imageData)
        /\ RunImageEvent(r, OnLoadThrew(runs[r].call))

RunImageFails ==
    \E r \in 1 .. Len(runs) :
        /\ AwaitsImage(r)
        /\ ~Decodes(runs[r].call.imageData)
        /\ RunImageEvent(r, OnError(runs[r].call))

UploadsNext ==
    \/ FileChosen
    \/ FileProcessed
    \/ FileReadFails
    \/ RunImageLoads
    \/ RunImageLoadThrows
    \/ RunImageFails

InitUploads ==
    /\ MergeIdle
    /\ ScanIdle
    /\ TextIdle
    /\ CallIdle
    /\ GeoIdle
    /\ upload = [imagePages |-> <<>>, pdfPages |-> Null]
    /\ geotechData \in BOOLEAN
    /\ Mounted

SpecUploads == InitUploads /\ [][UploadsNext]_vars

\* ------------------------------------------------------------------------
\* Numbers of the geotechnical check: parseFloat and IEEE double arithmetic
\* ------------------------------------------------------------------------
\* A natural number of any size is the sequence of its binary digits, the
\* lowest first and the highest a 1; a double is the pair [m, e] that stands
\* for m * 2^e, m of at most MantissaBits digits.
MantissaBits == 53

RECURSIVE BitsOf(_)
BitsOf(n) == IF n = 0 THEN <<>> ELSE <<n % 2>> \o BitsOf(n \div 2)

\* the digits without the zeros above the highest 1
StripHigh(bits) ==
    SubSeq(bits, 1, Max2(0, CHOOSE k \in 0 .. Len(bits) :
                               /\ k > 0 => bits[k] = 1
                               /\ \A i \in k + 1 .. Len(bits) : bits[i] = 0))

ShiftLeft(bits, k) ==
    IF Len(bits) = 0 THEN <<>> ELSE [i \in 1 .. k |-> 0] \o bits

BitAt(bits, i) == IF i \in 1 .. Len(bits) THEN bits[i] ELSE 0

\* -1, 0 or 1 as a is less than, equal to or greater than b: the highest
\* digit in which they differ decides
Compare(a, b) ==
    LET differing == { i \in 1 .. Max2(Len(a), Len(b)) : BitAt(a, i) # BitAt(b, i) }
    IN IF differing = {} THEN 0
       ELSE IF BitAt(a, CHOOSE i \in differing : \A j \in differing : j <= i) = 1
       THEN 1 ELSE -1

\* a - b for a >= b: digit i borrows when the digits below it of a write
\* less than those of b
Subtract(a, b) ==
    StripHigh([i \in 1 .. Len(a) |->
                  (a[i] + 2 - BitAt(b, i)
                     - (IF Compare(SubSeq(a, 1, i - 1),
                                   SubSeq(b, 1, Min2(i - 1, Len(b)))) < 0
                        THEN 1 ELSE 0)) % 2])

\* bits + 1: the lowest 0 becomes 1 and the 1s below it 0
Increment(bits) ==
    LET z == CHOOSE k \in 1 .. Len(bits) + 1 :
                /\ BitAt(bits, k) = 0
                /\ \A i \in 1 .. k - 1 : bits[i] = 1
    IN [i \in 1 .. Max2(Len(bits), z) |->
           IF i < z THEN 0 ELSE IF i = z THEN 1 ELSE bits[i]]

\* long division by a small divisor: the quotient digit and the remainder
\* left by the running value r
DivideDigit(d, r) ==
    [q |-> <<IF r >= d THEN 1 ELSE 0>>, rem |-> IF r >= d THEN r - d ELSE r]

DivideJoin(low, high) == [q |-> low.q \o high.q, rem |-> low.rem]

\* the digits hi down to lo, entered with the remainder rem of the digits
\* above them
RECURSIVE DivideRange(_, _, _, _, _)
RECURSIVE DivideLow(_, _, _, _, _)
DivideRange(bits, d, lo, hi, rem) ==
    IF lo = hi THEN DivideDigit(d, 2 * rem + bits[lo])
    ELSE Then(DivideRange(bits, d, ((lo + hi) \div 2) + 1, hi, rem),
              LAMBDA high : DivideLow(bits, d, lo, (lo + hi) \div 2, high))

DivideLow(bits, d, lo, mid, high) ==
    DivideJoin(DivideRange(bits, d, lo, mid, high.rem), high)

DivideResult(r) == [quotient |-> StripHigh(r.q), remainder |-> r.rem]

Divide(bits, d) ==
    IF Len(bits) = 0 THEN [quotient |-> <<>>, remainder |-> 0]
    ELSE DivideResult(DivideRange(bits, d, 1, Len(bits), 0))

RECURSIVE Pow10(_)
Pow10(d) == IF d = 0 THEN 1 ELSE 10 * Pow10(d - 1)

\* round to nearest, ties to even: the double nearest to bits * 2^e, where
\* sticky tells that the exact value lies above bits * 2^e by less than 2^e
RoundToDouble(bits, sticky, e) ==
    IF Len(bits) <= MantissaBits THEN [m |-> bits, e |-> e]
    ELSE LET drop == Len(bits) - MantissaBits
             kept == SubSeq(bits, drop + 1, Len(bits))
             half == bits[drop] = 1
             more == sticky \/ \E i \in 1 .. drop - 1 : bits[i] = 1
         IN [m |-> IF half /\ (more \/ kept[1] = 1) THEN Increment(kept)
                   ELSE kept,
             e |-> e + drop]

Zero == [m |-> <<>>, e |-> 0]

\* the double of the decimal literal n / 10^d
ToDouble(n, d) ==
    IF n = 0 THEN Zero
    ELSE LET shift == MantissaBits + Len(BitsOf(Pow10(d))) + 1
             q == Divide(ShiftLeft(BitsOf(n), shift), Pow10(d))
         IN RoundToDouble(q.quotient, q.remainder # 0, -shift)

\* both mantissas at the smaller of the two exponents
Aligned(x, y) ==
    [x |-> ShiftLeft(x.m, x.e - Min2(x.e, y.e)),
     y |-> ShiftLeft(y.m, y.e - Min2(x.e, y.e)),
     e |-> Min2(x.e, y.e)]

\* Math.abs(x - y) of two doubles that are not negative: the exact
\* difference, rounded
AbsDifference(x, y) ==
    LET a == Aligned(x, y)
    IN RoundToDouble(IF Compare(a.x, a.y) >= 0 THEN Subtract(a.x, a.y)
                     ELSE Subtract(a.y, a.x),
                     FALSE, a.e)

\* x <= y
AtMost(x, y) == Compare(Aligned(x, y).x, Aligned(x, y).y) <= 0

\* ------------------------------------------------------------------------
\* geotechPatterns.js: normalizeValue and valuesMatch
\* ------------------------------------------------------------------------
DecimalDigits == <<"0", "1", "2", "3", "4", "5", "6", "7", "8", "9">>

LowerCase == <<"a", "b", "c", "d", "e", "f", "g", "h", "i", "j", "k", "l", "m",
               "n", "o", "p", "q", "r", "s", "t", "u", "v", "w", "x", "y", "z">>

UpperCase == <<"A", "B", "C", "D", "E", "F", "G", "H", "I", "J", "K", "L", "M",
               "N", "O", "P", "Q", "R", "S", "T", "U", "V", "W", "X", "Y", "Z">>

IndexIn(seq, ch) == CHOOSE i \in 1 .. Len(seq) : seq[i] = ch

\* String.prototype.toUpperCase
toUpperCase(str) ==
    [i \in 1 .. Len(str) |->
        IF str[i] \in Range(LowerCase)
        THEN UpperCase[IndexIn(LowerCase, str[i])] ELSE str[i]]

\* String.prototype.toLowerCase
toLowerCase(str) ==
    [i \in 1 .. Len(str) |->
        IF str[i] \in Range(UpperCase)
        THEN LowerCase[IndexIn(UpperCase, str[i])] ELSE str[i]]

\* the length of the run of digits of str that starts at position i
RECURSIVE DigitRun(_, _)
DigitRun(str, i) ==
    IF i <= Len(str) /\ str[i] \in Range(DecimalDigits)
    THEN 1 + DigitRun(str, i + 1) ELSE 0

\* the number written by a string of digits
RECURSIVE NumberOfDigits(_)
NumberOfDigits(digits) ==
    IF Len(digits) = 0 THEN 0
    ELSE 10 * NumberOfDigits(SubSeq(digits, 1, Len(digits) - 1))
         + IndexIn(DecimalDigits, digits[Len(digits)]) - 1

\* the decimal literal parseFloat reads: leading white space is skipped and
\* the longest prefix of the form digits, digits.digits, digits. or .digits
\* is taken, as the number n / 10^d.  (Signs, exponents and Infinity are not
\* read here: no text of the model holds them.)
DecimalLiteral(str) ==
    LET text == TrimStart(str)
        whole == DigitRun(text, 1)
        point == whole + 1 <= Len(text) /\ text[whole + 1] = "."
        fraction == IF point THEN DigitRun(text, whole + 2) ELSE 0
    IN IF whole + fraction = 0 THEN [isNaN |-> TRUE]
       ELSE [isNaN |-> FALSE,
             n |-> NumberOfDigits(SubSeq(text, 1, whole)
                                  \o SubSeq(text, whole + 2, whole + 1 + fraction)),
             d |-> fraction]

NaN == [isNaN |-> TRUE]

parseFloat(str) ==
    IF DecimalLiteral(str).isNaN THEN NaN
    ELSE [isNaN |-> FALSE,
          value |-> ToDouble(DecimalLiteral(str).n, DecimalLiteral(str).d)]

\* the literal 0.005
Tolerance == ToDouble(5, 3)

valuesMatch(value1, value2, type) ==
    IF type = "numeric"
    THEN /\ ~parseFloat(value1).isNaN
         /\ ~parseFloat(value2).isNaN
         /\ AtMost(AbsDifference(parseFloat(value1).value,
                                 parseFloat(value2).value),
                   Tolerance)
    ELSE IF type = "category"
    THEN Trim(toUpperCase(value1)) = Trim(toUpperCase(value2))
    ELSE Trim(value1) = Trim(value2)

\* ------------------------------------------------------------------------
\* Regular expressions of geotechPatterns.js and geotechExtractor.js
\* ------------------------------------------------------------------------
\* A pattern is a tree of nodes.  Matching a node from a state [pos, cap]
\* (the position of the next character and the bounds of group 1) gives the
\* states it can end in, in the order in which a backtracking matcher tries
\* them: the first state of the whole pattern is the match.  Every pattern
\* of the two files has the flags g and i, so characters are compared
\* without regard to case.
Lit(str) == [kind |-> "lit", str |-> str]
OneOf(chars) == [kind |-> "set", chars |-> chars, negated |-> FALSE]
NoneOf(chars) == [kind |-> "set", chars |-> chars, negated |-> TRUE]
Concat(nodes) == [kind |-> "seq", of |-> nodes]
Alt(nodes) == [kind |-> "alt", of |-> nodes]
Cap(node) == [kind |-> "cap", of |-> node]
WordBoundary == [kind |-> "wordb"]
Times(node, min, max) ==
    [kind |-> "rep", of |-> node, min |-> min, max |-> max, bounded |-> TRUE,
     greedy |-> TRUE]
Opt(node) == Times(node, 0, 1)
Star(node) ==
    [kind |-> "rep", of |-> node, min |-> 0, max |-> 0, bounded |-> FALSE,
     greedy |-> TRUE]
Plus(node) ==
    [kind |-> "rep", of |-> node, min |-> 1, max |-> 0, bounded |-> FALSE,
     greedy |-> TRUE]
Lazy(rep) == [rep EXCEPT !.greedy = FALSE]

SpaceChars == {" ", "\t", "\n", "\r"}
WordChars ==
    Range(LowerCase) \cup Range(UpperCase) \cup Range(DecimalDigits) \cup {"_"}
Space == OneOf(SpaceChars)
Digit == OneOf(Range(DecimalDigits))
AnyChar == NoneOf({"\n", "\r"})

Upper1(ch) ==
    IF ch \in Range(LowerCase) THEN UpperCase[IndexIn(LowerCase, ch)] ELSE ch

CharMatches(node, ch) ==
    (\E c \in node.chars : Upper1(c) = Upper1(ch)) # node.negated

\* the sequences of seqs from the lo-th to the hi-th, joined
RECURSIVE FlattenRange(_, _, _)
FlattenRange(seqs, lo, hi) ==
    IF lo > hi THEN <<>>
    ELSE IF lo = hi THEN seqs[lo]
    ELSE FlattenRange(seqs, lo, (lo + hi) \div 2)
         \o FlattenRange(seqs, ((lo + hi) \div 2) + 1, hi)

Flatten(seqs) == FlattenRange(seqs, 1, Len(seqs))

\* how many characters from pos on match the class, up to limit of them
RunLength(node, text, pos, limit) ==
    CHOOSE n \in 0 .. limit :
        /\ \A j \in 0 .. n - 1 : CharMatches(node, text[pos + j])
        /\ n = limit \/ ~CharMatches(node, text[pos + n])

\* a quantified character class: the longest run first when greedy, the
\* shortest first when lazy
RepeatClass(node, text, st, n) ==
    IF n < node.min THEN <<>>
    ELSE [k \in 1 .. n - node.min + 1 |->
            [st EXCEPT !.pos = @ + (IF node.greedy THEN n - k + 1
                                    ELSE node.min + k - 1)]]

RECURSIVE Match(_, _, _)
RECURSIVE MatchEach(_, _, _)
RECURSIVE SeqFrom(_, _, _, _)
RECURSIVE RepeatFrom(_, _, _, _)

\* the node matched from each of the states, in their order
MatchEach(node, text, states) ==
    Flatten([k \in 1 .. Len(states) |-> Match(node, text, states[k])])

SeqFrom(nodes, k, text, states) ==
    IF k > Len(nodes) \/ Len(states) = 0 THEN states
    ELSE SeqFrom(nodes, k + 1, text, MatchEach(nodes[k], text, states))

\* a quantified group, count iterations made: an iteration more (one that
\* consumed something) is tried before stopping when greedy, after when lazy
RepeatFrom(node, text, st, count) ==
    LET more == IF node.bounded /\ count >= node.max THEN <<>>
                ELSE LET once == Match(node.of, text, st)
                     IN Flatten([k \in 1 .. Len(once) |->
                                   IF once[k].pos > st.pos
                                   THEN RepeatFrom(node, text, once[k], count + 1)
                                   ELSE <<>>])
        stop == IF count >= node.min THEN <<st>> ELSE <<>>
    IN IF node.greedy THEN more \o stop ELSE stop \o more

Match(node, text, st) ==
    CASE node.kind = "lit" ->
            IF /\ st.pos + Len(node.str) - 1 <= Len(text)
               /\ \A j \in 1 .. Len(node.str) :
                     Upper1(text[st.pos + j - 1]) = Upper1(node.str[j])
            THEN <<[st EXCEPT !.pos = @ + Len(node.str)]>>
            ELSE <<>>
      [] node.kind = "set" ->
            IF st.pos <= Len(text) /\ CharMatches(node, text[st.pos])
            THEN <<[st EXCEPT !.pos = @ + 1]>>
            ELSE <<>>
      [] node.kind = "wordb" ->
            IF (st.pos > 1 /\ text[st.pos - 1] \in WordChars)
               # (st.pos <= Len(text) /\ text[st.pos] \in WordChars)
            THEN <<st>>
            ELSE <<>>
      [] node.kind = "cap" ->
            LET inner == Match(node.of, text, st)
            IN [k \in 1 .. Len(inner) |->
                  [inner[k] EXCEPT !.cap = <<st.pos, inner[k].pos>>]]
      [] node.kind = "seq" -> SeqFrom(node.of, 1, text, <<st>>)
      [] node.kind = "alt" ->
            Flatten([k \in 1 .. Len(node.of) |-> Match(node.of[k], text, st)])
      [] node.kind = "rep" ->
            IF node.of.kind = "set"
            THEN RepeatClass(node, text, st,
                    RunLength(node.of, text, st.pos,
                        IF node.bounded
                        THEN Min2(node.max, Len(text) - st.pos + 1)
                        ELSE Len(text) - st.pos + 1))
            ELSE RepeatFrom(node, text, st, 0)

\* the match of the pattern that starts at position i, if there is one
MatchAt(pattern, text, i) == Match(pattern, text, [pos |-> i, cap |-> <<>>])

\* the match object: index counts from 0; match[0] and match[1]
MatchObject(text, i, st) ==
    [index |-> i - 1,
     whole |-> SubSeq(text, i, st.pos - 1),
     group1 |-> IF Len(st.cap) = 0 THEN <<>>
                ELSE SubSeq(text, st.cap[1], st.cap[2] - 1),
     end |-> st.pos]

\* [...text.matchAll(pattern)] from position from on: the leftmost match,
\* then the matches after its end
RECURSIVE MatchAllFrom(_, _, _)
RECURSIVE MatchAllAt(_, _, _)

\* the match that starts at position i, then the matches after its end
MatchAllAt(pattern, text, i) ==
    Then(MatchAt(pattern, text, i)[1],
         LAMBDA st :
             <<MatchObject(text, i, st)>>
             \o MatchAllFrom(pattern, text,
                             IF st.pos = i THEN i + 1 ELSE st.pos))

MatchAllFrom(pattern, text, from) ==
    Then({ i \in from .. Len(text) + 1 :
             Len(MatchAt(pattern, text, i)) > 0 },
         LAMBDA starts :
             IF starts = {} THEN <<>>
             ELSE MatchAllAt(pattern, text,
                             CHOOSE i \in starts : \A j \in starts : i <= j))

matchAll(text, pattern) == MatchAllFrom(pattern, text, 1)

\* ------------------------------------------------------------------------
\* geotechPatterns.js: SEISMIC_PATTERNS
\* ------------------------------------------------------------------------

\* SEISMIC_PATTERNS.Sds.patterns
SdsPatterns ==
    << Concat(<<Lit(<<"S">>), Star(Space), Lit(<<"D", "S">>), Star(Space),
         Lit(<<":">>), Star(Space), Cap(Concat(<<Plus(Digit),
         Opt(Lit(<<".">>)), Plus(Digit)>>))>>),
       Concat(<<Lit(<<"S", "D", "S">>), Star(Space), Lit(<<":">>),
         Star(Space), Cap(Concat(<<Plus(Digit), Opt(Lit(<<".">>)),
         Plus(Digit)>>))>>),
       Concat(<<Lit(<<"S">>), Opt(OneOf({"_"} \cup SpaceChars)), Lit(<<"D",
         "S">>), Star(Space), Lit(<<"=">>), Star(Space),
         Cap(Concat(<<Plus(Digit), Opt(Lit(<<".">>)), Star(Digit)>>))>>),
       Concat(<<Lit(<<"S", "_", "D", "S">>), Plus(Space),
         Cap(Concat(<<Plus(Digit), Lit(<<".">>), Plus(Digit)>>)), Star(Space),
         Lit(<<"g">>)>>),
       Concat(<<Lit(<<"S", "D", "S">>), Plus(Space),
         Cap(Concat(<<Plus(Digit), Lit(<<".">>), Plus(Digit)>>)), Star(Space),
         Lit(<<"g">>)>>),
       Concat(<<Lit(<<"S">>), Plus(Space), Lit(<<"D", "S">>), Plus(Space),
         Cap(Concat(<<Plus(Digit), Lit(<<".">>), Plus(Digit)>>)), Star(Space),
         Lit(<<"g">>)>>),
       Concat(<<Lit(<<"D", "e", "s", "i", "g", "n">>), Plus(Space),
         Lit(<<"S", "p", "e", "c", "t", "r", "a", "l">>), Plus(Space),
         Lit(<<"R", "e", "s", "p", "o", "n", "s", "e">>), Plus(Space),
         Lit(<<"A", "c", "c", "e", "l", "e", "r", "a", "t", "i", "o", "n">>),
         Plus(Space), Lazy(Star(AnyChar)), Lit(<<"(">>), Lazy(Star(AnyChar)),
         Lit(<<"s", "h", "o", "r", "t">>), Lazy(Star(AnyChar)), Lit(<<"p",
         "e", "r", "i", "o", "d">>), Lazy(Star(AnyChar)), Lit(<<")">>),
         Lazy(Star(AnyChar)), OneOf({"=", ":"}), Star(Space),
         Cap(Concat(<<Plus(Digit), Lit(<<".">>), Plus(Digit)>>))>>),
       Concat(<<Lit(<<"S", "h", "o", "r", "t">>), Plus(Space), Lit(<<"P",
         "e", "r", "i", "o", "d">>), Plus(Space), Lit(<<"D", "e", "s", "i",
         "g", "n">>), Plus(Space), Lit(<<"S", "p", "e", "c", "t", "r", "a",
         "l">>), Plus(Space), Lit(<<"R", "e", "s", "p", "o", "n", "s", "e">>),
         Plus(Space), Lit(<<"A", "c", "c", "e", "l", "e", "r", "a", "t", "i",
         "o", "n">>), Star(Space), OneOf({"=", ":"}), Star(Space),
         Cap(Concat(<<Plus(Digit), Lit(<<".">>), Plus(Digit)>>))>>),
       Concat(<<Lit(<<"A", "d", "j", "u", "s", "t", "e", "d">>),
         Plus(Space), Lit(<<"S", "h", "o", "r", "t">>), Plus(Space),
         Lit(<<"P", "e", "r", "i", "o", "d">>), Plus(Space), Lit(<<"S", "p",
         "e", "c", "t", "r", "a", "l">>), Plus(Space), Lit(<<"A", "c", "c",
         "e", "l", "e", "r", "a", "t", "i", "o", "n">>), Star(Space),
         OneOf({"=", ":"}), Star(Space), Cap(Concat(<<Plus(Digit),
         Lit(<<".">>), Plus(Digit)>>))>>) >>

\* SEISMIC_PATTERNS.Sd1.patterns
Sd1Patterns ==
    << Concat(<<Lit(<<"S">>), Star(Space), Lit(<<"D", "1">>), Star(Space),
         Lit(<<":">>), Star(Space), Cap(Concat(<<Plus(Digit),
         Opt(Lit(<<".">>)), Plus(Digit)>>))>>),
       Concat(<<Lit(<<"S", "D", "1">>), Star(Space), Lit(<<":">>),
         Star(Space), Cap(Concat(<<Plus(Digit), Opt(Lit(<<".">>)),
         Plus(Digit)>>))>>),
       Concat(<<Lit(<<"S">>), Opt(OneOf({"_"} \cup SpaceChars)), Lit(<<"D",
         "1">>), Star(Space), Lit(<<"=">>), Star(Space),
         Cap(Concat(<<Plus(Digit), Opt(Lit(<<".">>)), Star(Digit)>>))>>),
       Concat(<<Lit(<<"S", "_", "D", "1">>), Plus(Space),
         Cap(Concat(<<Plus(Digit), Lit(<<".">>), Plus(Digit)>>)), Star(Space),
         Lit(<<"g">>)>>),
       Concat(<<Lit(<<"S", "D", "1">>), Plus(Space),
         Cap(Concat(<<Plus(Digit), Lit(<<".">>), Plus(Digit)>>)), Star(Space),
         Lit(<<"g">>)>>),
       Concat(<<Lit(<<"S">>), Plus(Space), Lit(<<"D", "1">>), Plus(Space),
         Cap(Concat(<<Plus(Digit), Lit(<<".">>), Plus(Digit)>>)), Star(Space),
         Lit(<<"g">>)>>),
       Concat(<<Lit(<<"D", "e", "s", "i", "g", "n">>), Plus(Space),
         Lit(<<"S", "p", "e", "c", "t", "r", "a", "l">>), Plus(Space),
         Lit(<<"R", "e", "s", "p", "o", "n", "s", "e">>), Plus(Space),
         Lit(<<"A", "c", "c", "e", "l", "e", "r", "a", "t", "i", "o", "n">>),
         Plus(Space), Lazy(Star(AnyChar)), Lit(<<"(">>), Lazy(Star(AnyChar)),
         Lit(<<"1">>), Lazy(Star(AnyChar)), Lit(<<"s", "e", "c", "o", "n",
         "d">>), Lazy(Star(AnyChar)), Lit(<<")">>), Lazy(Star(AnyChar)),
         OneOf({"=", ":"}), Star(Space), Cap(Concat(<<Plus(Digit),
         Lit(<<".">>), Plus(Digit)>>))>>),
       Concat(<<Lit(<<"1">>), Star(Space), OneOf({"-", "[en dash]"}),
         Star(Space), Lit(<<"S", "e", "c", "o", "n", "d">>), Plus(Space),
         Lit(<<"D", "e", "s", "i", "g", "n">>), Plus(Space), Lit(<<"S", "p",
         "e", "c", "t", "r", "a", "l">>), Plus(Space), Lit(<<"R", "e", "s",
         "p", "o", "n", "s", "e">>), Plus(Space), Lit(<<"A", "c", "c", "e",
         "l", "e", "r", "a", "t", "i", "o", "n">>), Star(Space), OneOf({"=",
         ":"}), Star(Space), Cap(Concat(<<Plus(Digit), Lit(<<".">>),
         Plus(Digit)>>))>>),
       Concat(<<Lit(<<"A", "d", "j", "u", "s", "t", "e", "d">>),
         Plus(Space), Lit(<<"1">>), Star(Space), OneOf({"-", "[en dash]"}),
         Star(Space), Lit(<<"S", "e", "c", "o", "n", "d">>), Plus(Space),
         Lit(<<"S", "p", "e", "c", "t", "r", "a", "l">>), Plus(Space),
         Lit(<<"A", "c", "c", "e", "l", "e", "r", "a", "t", "i", "o", "n">>),
         Star(Space), OneOf({"=", ":"}), Star(Space),
         Cap(Concat(<<Plus(Digit), Lit(<<".">>), Plus(Digit)>>))>>) >>

\* SEISMIC_PATTERNS.Sms.patterns
SmsPatterns ==
    << Concat(<<Lit(<<"S">>), Star(Space), Lit(<<"M", "S">>), Star(Space),
         Lit(<<":">>), Star(Space), Cap(Concat(<<Plus(Digit),
         Opt(Lit(<<".">>)), Plus(Digit)>>))>>),
       Concat(<<Lit(<<"S", "M", "S">>), Star(Space), Lit(<<":">>),
         Star(Space), Cap(Concat(<<Plus(Digit), Opt(Lit(<<".">>)),
         Plus(Digit)>>))>>),
       Concat(<<Lit(<<"S", "_", "M", "S">>), Plus(Space),
         Cap(Concat(<<Plus(Digit), Lit(<<".">>), Plus(Digit)>>)), Star(Space),
         Lit(<<"g">>)>>),
       Concat(<<Lit(<<"S", "M", "S">>), Plus(Space),
         Cap(Concat(<<Plus(Digit), Lit(<<".">>), Plus(Digit)>>)), Star(Space),
         Lit(<<"g">>)>>),
       Concat(<<Lit(<<"S">>), Plus(Space), Lit(<<"M", "S">>), Plus(Space),
         Cap(Concat(<<Plus(Digit), Lit(<<".">>), Plus(Digit)>>)), Star(Space),
         Lit(<<"g">>)>>),
       Concat(<<Lit(<<"S", "_", "M", "S">>), Star(Space), Lit(<<"=">>),
         Star(Space), Cap(Concat(<<Plus(Digit), Lit(<<".">>),
         Plus(Digit)>>))>>),
       Concat(<<Lit(<<"S", "M", "S">>), Star(Space), Lit(<<"=">>),
         Star(Space), Cap(Concat(<<Plus(Digit), Lit(<<".">>),
         Plus(Digit)>>))>>) >>

\* SEISMIC_PATTERNS.Sm1.patterns
Sm1Patterns ==
    << Concat(<<Lit(<<"S">>), Star(Space), Lit(<<"M", "1">>), Star(Space),
         Lit(<<":">>), Star(Space), Cap(Concat(<<Plus(Digit),
         Opt(Lit(<<".">>)), Plus(Digit)>>))>>),
       Concat(<<Lit(<<"S", "M", "1">>), Star(Space), Lit(<<":">>),
         Star(Space), Cap(Concat(<<Plus(Digit), Opt(Lit(<<".">>)),
         Plus(Digit)>>))>>),
       Concat(<<Lit(<<"S", "_", "M", "1">>), Plus(Space),
         Cap(Concat(<<Plus(Digit), Lit(<<".">>), Plus(Digit)>>)), Star(Space),
         Lit(<<"g">>)>>),
       Concat(<<Lit(<<"S", "M", "1">>), Plus(Space),
         Cap(Concat(<<Plus(Digit), Lit(<<".">>), Plus(Digit)>>)), Star(Space),
         Lit(<<"g">>)>>),
       Concat(<<Lit(<<"S">>), Plus(Space), Lit(<<"M", "1">>), Plus(Space),
         Cap(Concat(<<Plus(Digit), Lit(<<".">>), Plus(Digit)>>)), Star(Space),
         Lit(<<"g">>)>>),
       Concat(<<Lit(<<"S", "_", "M", "1">>), Star(Space), Lit(<<"=">>),
         Star(Space), Cap(Concat(<<Plus(Digit), Lit(<<".">>),
         Plus(Digit)>>))>>),
       Concat(<<Lit(<<"S", "M", "1">>), Star(Space), Lit(<<"=">>),
         Star(Space), Cap(Concat(<<Plus(Digit), Lit(<<".">>),
         Plus(Digit)>>))>>) >>

\* SEISMIC_PATTERNS.Ss.patterns
SsPatterns ==
    << Concat(<<Lit(<<"M", "a", "p", "p", "e", "d">>), Plus(Space),
         Lit(<<"S", "p", "e", "c", "t", "r", "a", "l">>), Plus(Space),
         Lit(<<"R", "e", "s", "p", "o", "n", "s", "e">>), Plus(Space),
         Lit(<<"A", "c", "c", "e", "l", "e", "r", "a", "t", "i", "o", "n">>),
         Plus(Space), Lit(<<"a", "t">>), Plus(Space), Lit(<<"0", ".", "2",
         "-", "s", "e", "c", "o", "n", "d">>), Plus(Space), Lit(<<"p", "e",
         "r", "i", "o", "d">>), Opt(Lit(<<",">>)), Plus(Space), Lit(<<"S">>),
         OneOf({"s", "S"}), Plus(Space), Cap(Concat(<<Times(Digit, 1, 2),
         Opt(Concat(<<Lit(<<".">>), Plus(Digit)>>))>>)), Star(Space),
         Lit(<<"g">>)>>),
       Concat(<<WordBoundary, Lit(<<"S">>), Plus(Space), Lit(<<"S">>),
         Star(Space), OneOf({"=", ":", ","}), Star(Space),
         Cap(Concat(<<Times(Digit, 1, 2), Opt(Concat(<<Lit(<<".">>),
         Plus(Digit)>>))>>)), Star(Space), Opt(Lit(<<"g">>)), WordBoundary>>),
       Concat(<<WordBoundary, Lit(<<"S", "S">>), Star(Space), OneOf({"=",
         ":", ","}), Star(Space), Cap(Concat(<<Times(Digit, 1, 2),
         Opt(Concat(<<Lit(<<".">>), Plus(Digit)>>))>>)), Star(Space),
         Opt(Lit(<<"g">>)), WordBoundary>>),
       Concat(<<WordBoundary, Lit(<<"S", "s">>), Star(Space), Lit(<<"=">>),
         Star(Space), Cap(Concat(<<Times(Digit, 1, 2),
         Opt(Concat(<<Lit(<<".">>), Plus(Digit)>>))>>)), WordBoundary>>),
       Concat(<<Lit(<<"M", "C", "E", "R">>), Plus(Space),
         Lazy(Star(AnyChar)), Lit(<<"S", "h", "o", "r", "t">>), Plus(Space),
         Lit(<<"P", "e", "r", "i", "o", "d">>), Plus(Space),
         Lazy(Star(AnyChar)), OneOf({"=", ":"}), Star(Space),
         Cap(Concat(<<Times(Digit, 1, 2), Lit(<<".">>), Plus(Digit)>>))>>),
       Concat(<<Lit(<<"M", "a", "p", "p", "e", "d">>), Plus(Space),
         Lit(<<"S", "p", "e", "c", "t", "r", "a", "l">>), Plus(Space),
         Lit(<<"A", "c", "c", "e", "l", "e", "r", "a", "t", "i", "o", "n">>),
         Plus(Space), Lazy(Star(AnyChar)), Lit(<<"S", "h", "o", "r", "t">>),
         Plus(Space), Lit(<<"P", "e", "r", "i", "o", "d">>),
         Lazy(Star(AnyChar)), OneOf({"=", ":"}), Star(Space),
         Cap(Concat(<<Times(Digit, 1, 2), Lit(<<".">>), Plus(Digit)>>))>>),
       Concat(<<Lit(<<"R", "i", "s", "k">>), Star(Space), OneOf({"-",
         "[en dash]"}), Star(Space), Lit(<<"T", "a", "r", "g", "e", "t", "e",
         "d">>), Plus(Space), Lazy(Star(AnyChar)), Lit(<<"S", "h", "o", "r",
         "t">>), Plus(Space), Lit(<<"P", "e", "r", "i", "o", "d">>),
         Lazy(Star(AnyChar)), OneOf({"=", ":"}), Star(Space),
         Cap(Concat(<<Times(Digit, 1, 2), Lit(<<".">>), Plus(Digit)>>))>>) >>

\* SEISMIC_PATTERNS.S1.patterns
S1Patterns ==
    << Concat(<<Lit(<<"M", "a", "p", "p", "e", "d">>), Plus(Space),
         Lit(<<"S", "p", "e", "c", "t", "r", "a", "l">>), Plus(Space),
         Lit(<<"R", "e", "s", "p", "o", "n", "s", "e">>), Plus(Space),
         Lit(<<"A", "c", "c", "e", "l", "e", "r", "a", "t", "i", "o", "n">>),
         Plus(Space), Lit(<<"a", "t">>), Plus(Space), Lit(<<"1", ".", "0",
         "-", "s", "e", "c", "o", "n", "d">>), Plus(Space), Lit(<<"p", "e",
         "r", "i", "o", "d">>), Opt(Lit(<<",">>)), Plus(Space), Lit(<<"S">>),
         OneOf({"1", "[sub 1]"}), Plus(Space), Cap(Concat(<<Times(Digit, 1,
         2), Opt(Concat(<<Lit(<<".">>), Plus(Digit)>>))>>)), Star(Space),
         Lit(<<"g">>)>>),
       Concat(<<WordBoundary, Lit(<<"S">>), Plus(Space), Lit(<<"1">>),
         Star(Space), OneOf({"=", ":", ","}), Star(Space),
         Cap(Concat(<<Times(Digit, 1, 2), Opt(Concat(<<Lit(<<".">>),
         Plus(Digit)>>))>>)), Star(Space), Opt(Lit(<<"g">>)), WordBoundary>>),
       Concat(<<WordBoundary, Lit(<<"S", "1">>), Star(Space), OneOf({"=",
         ":", ","}), Star(Space), Cap(Concat(<<Times(Digit, 1, 2),
         Opt(Concat(<<Lit(<<".">>), Plus(Digit)>>))>>)), Star(Space),
         Opt(Lit(<<"g">>)), WordBoundary>>),
       Concat(<<Lit(<<"M", "C", "E", "R">>), Plus(Space),
         Lazy(Star(AnyChar)), Lit(<<"1">>), Star(Space), OneOf({"-",
         "[en dash]"}), Star(Space), Lit(<<"S", "e", "c", "o", "n", "d">>),
         Lazy(Star(AnyChar)), OneOf({"=", ":"}), Star(Space),
         Cap(Concat(<<Times(Digit, 1, 2), Lit(<<".">>), Plus(Digit)>>))>>),
       Concat(<<Lit(<<"M", "a", "p", "p", "e", "d">>), Plus(Space),
         Lit(<<"S", "p", "e", "c", "t", "r", "a", "l">>), Plus(Space),
         Lit(<<"A", "c", "c", "e", "l", "e", "r", "a", "t", "i", "o", "n">>),
         Plus(Space), Lazy(Star(AnyChar)), Lit(<<"1">>), Star(Space),
         OneOf({"-", "[en dash]"}), Star(Space), Lit(<<"S", "e", "c", "o",
         "n", "d">>), Lazy(Star(AnyChar)), OneOf({"=", ":"}), Star(Space),
         Cap(Concat(<<Times(Digit, 1, 2), Lit(<<".">>), Plus(Digit)>>))>>),
       Concat(<<Lit(<<"R", "i", "s", "k">>), Star(Space), OneOf({"-",
         "[en dash]"}), Star(Space), Lit(<<"T", "a", "r", "g", "e", "t", "e",
         "d">>), Plus(Space), Lazy(Star(AnyChar)), Lit(<<"1">>), Star(Space),
         OneOf({"-", "[en dash]"}), Star(Space), Lit(<<"S", "e", "c", "o",
         "n", "d">>), Lazy(Star(AnyChar)), OneOf({"=", ":"}), Star(Space),
         Cap(Concat(<<Times(Digit, 1, 2), Lit(<<".">>), Plus(Digit)>>))>>) >>

\* SEISMIC_PATTERNS.Fa.patterns
FaPatterns ==
    << Concat(<<Lit(<<"S", "i", "t", "e">>), Plus(Space), Lit(<<"C", "o",
         "e", "f", "f", "i", "c", "i", "e", "n", "t">>), Opt(Lit(<<",">>)),
         Plus(Space), Lit(<<"F", "a">>), Plus(Space),
         Cap(Concat(<<Plus(Digit), Lit(<<".">>), Plus(Digit)>>))>>),
       Concat(<<Lit(<<"F", "A">>), Star(Space), OneOf({"=", ":", ","}),
         Star(Space), Cap(Concat(<<Plus(Digit), Lit(<<".">>),
         Plus(Digit)>>))>>),
       Concat(<<Lit(<<"F">>), Opt(OneOf({"_"} \cup SpaceChars)),
         Lit(<<"A">>), Star(Space), OneOf({"=", ":", ","}), Star(Space),
         Cap(Concat(<<Plus(Digit), Lit(<<".">>), Plus(Digit)>>))>>),
       Concat(<<Lit(<<"S", "i", "t", "e">>), Plus(Space), Lit(<<"C", "o",
         "e", "f", "f", "i", "c", "i", "e", "n", "t">>), Plus(Space),
         Lazy(Star(AnyChar)), Lit(<<"S", "h", "o", "r", "t">>), Plus(Space),
         Lit(<<"P", "e", "r", "i", "o", "d">>), Lazy(Star(AnyChar)),
         OneOf({"=", ":"}), Star(Space), Cap(Concat(<<Plus(Digit),
         Lit(<<".">>), Plus(Digit)>>))>>),
       Concat(<<Lit(<<"S", "i", "t", "e">>), Plus(Space), Lit(<<"C", "l",
         "a", "s", "s">>), Plus(Space), Lit(<<"M", "o", "d", "i", "f", "i",
         "c", "a", "t", "i", "o", "n">>), Plus(Space), Lit(<<"F", "a", "c",
         "t", "o", "r">>), Plus(Space), Lazy(Star(AnyChar)), Lit(<<"0", ".",
         "2">>), Lazy(Star(AnyChar)), OneOf({"=", ":"}), Star(Space),
         Cap(Concat(<<Plus(Digit), Lit(<<".">>), Plus(Digit)>>))>>),
       Concat(<<Lit(<<"F", "P", "G", "A">>), Star(Space), OneOf({"=", ":"}),
         Star(Space), Cap(Concat(<<Plus(Digit), Lit(<<".">>),
         Plus(Digit)>>))>>) >>

\* SEISMIC_PATTERNS.Fv.patterns
FvPatterns ==
    << Concat(<<Lit(<<"F", "V">>), Star(Space), OneOf({"=", ":"}),
         Star(Space), Cap(Concat(<<Plus(Digit), Lit(<<".">>),
         Plus(Digit)>>))>>),
       Concat(<<Lit(<<"F">>), Opt(OneOf({"_"} \cup SpaceChars)),
         Lit(<<"V">>), Star(Space), OneOf({"=", ":"}), Star(Space),
         Cap(Concat(<<Plus(Digit), Lit(<<".">>), Plus(Digit)>>))>>),
       Concat(<<Lit(<<"S", "i", "t", "e">>), Plus(Space), Lit(<<"C", "o",
         "e", "f", "f", "i", "c", "i", "e", "n", "t">>), Plus(Space),
         Lazy(Star(AnyChar)), Lit(<<"1">>), Star(Space), OneOf({"-",
         "[en dash]"}), Star(Space), Lit(<<"S", "e", "c", "o", "n", "d">>),
         Lazy(Star(AnyChar)), OneOf({"=", ":"}), Star(Space),
         Cap(Concat(<<Plus(Digit), Lit(<<".">>), Plus(Digit)>>))>>),
       Concat(<<Lit(<<"S", "i", "t", "e">>), Plus(Space), Lit(<<"C", "l",
         "a", "s", "s">>), Plus(Space), Lit(<<"M", "o", "d", "i", "f", "i",
         "c", "a", "t", "i", "o", "n">>), Plus(Space), Lit(<<"F", "a", "c",
         "t", "o", "r">>), Plus(Space), Lazy(Star(AnyChar)), Lit(<<"1", ".",
         "0">>), Lazy(Star(AnyChar)), OneOf({"=", ":"}), Star(Space),
         Cap(Concat(<<Plus(Digit), Lit(<<".">>), Plus(Digit)>>))>>) >>

\* SEISMIC_PATTERNS.siteClass.patterns
SiteClassPatterns ==
    << Concat(<<Lit(<<"S", "i", "t", "e">>), Plus(Space), Lit(<<"C", "l",
         "a", "s", "s">>), Plus(Space), Cap(OneOf({"A", "B", "C", "D", "E",
         "F"})), WordBoundary>>),
       Concat(<<Lit(<<"S", "i", "t", "e">>), Plus(Space), Lit(<<"C", "l",
         "a", "s", "s">>), Star(Space), OneOf({"=", ":"}), Star(Space),
         Cap(OneOf({"A", "B", "C", "D", "E", "F"})), WordBoundary>>),
       Concat(<<Lit(<<"S", "i", "t", "e">>), Plus(Space), Lit(<<"C", "l",
         "a", "s", "s", "i", "f", "i", "c", "a", "t", "i", "o", "n">>),
         Star(Space), OneOf({"=", ":"}), Star(Space), Cap(OneOf({"A", "B",
         "C", "D", "E", "F"})), WordBoundary>>),
       Concat(<<Lit(<<"A", "S", "C", "E">>), Plus(Space), Lit(<<"7">>),
         Lazy(Star(AnyChar)), Lit(<<"S", "i", "t", "e">>), Plus(Space),
         Lit(<<"C", "l", "a", "s", "s">>), Star(Space), OneOf({"=", ":"}),
         Star(Space), Cap(OneOf({"A", "B", "C", "D", "E", "F"})),
         WordBoundary>>),
       Concat(<<Lit(<<"S", "e", "i", "s", "m", "i", "c">>), Plus(Space),
         Lit(<<"S", "i", "t", "e">>), Plus(Space), Lit(<<"C", "l", "a", "s",
         "s">>), Star(Space), OneOf({"=", ":"}), Star(Space), Cap(OneOf({"A",
         "B", "C", "D", "E", "F"})), WordBoundary>>),
       Concat(<<Lit(<<"T", "h", "e">>), Plus(Space), Lit(<<"s", "i", "t",
         "e">>), Plus(Space), Lit(<<"c", "l", "a", "s", "s">>), Plus(Space),
         Lit(<<"i", "s">>), Plus(Space), Cap(OneOf({"A", "B", "C", "D", "E",
         "F"})), WordBoundary>>) >>

\* SEISMIC_PATTERNS.riskCategory.patterns
RiskCategoryPatterns ==
    << Concat(<<Lit(<<"R", "I", "S", "K">>), Plus(Space), Lit(<<"C", "A",
         "T", "E", "G", "O", "R", "Y", ":">>), Star(Space),
         Cap(Alt(<<Times(Lit(<<"I">>), 1, 3), Lit(<<"I", "V">>)>>)),
         WordBoundary>>),
       Concat(<<Lit(<<"R", "i", "s", "k">>), Plus(Space), Lit(<<"C", "a",
         "t", "e", "g", "o", "r", "y">>), Star(Space), OneOf({"=", ":"}),
         Star(Space), Cap(Alt(<<Times(Lit(<<"I">>), 1, 3), Lit(<<"I",
         "V">>)>>)), WordBoundary>>),
       Concat(<<Lit(<<"S", "e", "i", "s", "m", "i", "c">>), Plus(Space),
         Lit(<<"R", "i", "s", "k">>), Plus(Space), Lit(<<"C", "a", "t", "e",
         "g", "o", "r", "y">>), Star(Space), OneOf({"=", ":"}), Star(Space),
         Cap(Alt(<<Times(Lit(<<"I">>), 1, 3), Lit(<<"I", "V">>)>>)),
         WordBoundary>>),
       Concat(<<Lit(<<"A", "S", "C", "E">>), Plus(Space), Lit(<<"7">>),
         Lazy(Star(AnyChar)), Lit(<<"R", "i", "s", "k">>), Plus(Space),
         Lit(<<"C", "a", "t", "e", "g", "o", "r", "y">>), Star(Space),
         OneOf({"=", ":"}), Star(Space), Cap(Alt(<<Times(Lit(<<"I">>), 1, 3),
         Lit(<<"I", "V">>)>>)), WordBoundary>>),
       Concat(<<Lit(<<"O", "c", "c", "u", "p", "a", "n", "c", "y">>),
         Plus(Space), Lit(<<"C", "a", "t", "e", "g", "o", "r", "y">>),
         Star(Space), OneOf({"=", ":"}), Star(Space),
         Cap(Alt(<<Times(Lit(<<"I">>), 1, 3), Lit(<<"I", "V">>)>>)),
         WordBoundary>>),
       Concat(<<Lit(<<"T", "h", "e">>), Plus(Space), Lit(<<"r", "i", "s",
         "k">>), Plus(Space), Lit(<<"c", "a", "t", "e", "g", "o", "r", "y">>),
         Plus(Space), Lit(<<"i", "s">>), Plus(Space),
         Cap(Alt(<<Times(Lit(<<"I">>), 1, 3), Lit(<<"I", "V">>)>>)),
         WordBoundary>>) >>

\* SEISMIC_PATTERNS.seismicDesignCategory.patterns
SeismicDesignCategoryPatterns ==
    << Concat(<<Lit(<<"S", "e", "i", "s", "m", "i", "c">>), Plus(Space),
         Lit(<<"D", "e", "s", "i", "g", "n">>), Plus(Space), Lit(<<"C", "a",
         "t", "e", "g", "o", "r", "y">>), Plus(Space), Lit(<<"f", "o", "r">>),
         Plus(Space), Lit(<<"R", "i", "s", "k">>), Plus(Space), Lit(<<"C",
         "a", "t", "e", "g", "o", "r", "y">>), Lazy(Star(NoneOf({",",
         "\n"}))), Cap(OneOf({"A", "B", "C", "D", "E", "F"})), WordBoundary>>),
       Concat(<<Lit(<<"S", "E", "I", "S", "M", "I", "C">>), Plus(Space),
         Lit(<<"D", "E", "S", "I", "G", "N">>), Plus(Space), Lit(<<"C", "A",
         "T", "E", "G", "O", "R", "Y", ":">>), Star(Space), Cap(OneOf({"A",
         "B", "C", "D", "E", "F"})), WordBoundary>>),
       Concat(<<Lit(<<"S", "e", "i", "s", "m", "i", "c">>), Plus(Space),
         Lit(<<"D", "e", "s", "i", "g", "n">>), Plus(Space), Lit(<<"C", "a",
         "t", "e", "g", "o", "r", "y">>), Plus(Space), Cap(OneOf({"A", "B",
         "C", "D", "E", "F"})), WordBoundary>>),
       Concat(<<Lit(<<"S", "e", "i", "s", "m", "i", "c">>), Plus(Space),
         Lit(<<"D", "e", "s", "i", "g", "n">>), Plus(Space), Lit(<<"C", "a",
         "t", "e", "g", "o", "r", "y">>), Star(Space), OneOf({"=", ":"}),
         Star(Space), Cap(OneOf({"A", "B", "C", "D", "E", "F"})),
         WordBoundary>>),
       Concat(<<Lit(<<"S", "D", "C">>), Star(Space), OneOf({"=", ":"}),
         Star(Space), Cap(OneOf({"A", "B", "C", "D", "E", "F"})),
         WordBoundary>>) >>

\* the keys in the order of Object.entries(SEISMIC_PATTERNS)
SeismicKeys ==
    <<"Sds", "Sd1", "Sms", "Sm1", "Ss", "S1", "Fa", "Fv", "siteClass",
      "riskCategory", "seismicDesignCategory">>

SEISMIC_PATTERNS ==
    [Sds |-> [label |-> <<"S", "d", "s">>, patterns |-> SdsPatterns,
          type |-> "numeric"],
     Sd1 |-> [label |-> <<"S", "d", "1">>, patterns |-> Sd1Patterns,
          type |-> "numeric"],
     Sms |-> [label |-> <<"S", "m", "s">>, patterns |-> SmsPatterns,
          type |-> "numeric"],
     Sm1 |-> [label |-> <<"S", "m", "1">>, patterns |-> Sm1Patterns,
          type |-> "numeric"],
     Ss |-> [label |-> <<"S", "s">>, patterns |-> SsPatterns,
         type |-> "numeric"],
     S1 |-> [label |-> <<"S", "1">>, patterns |-> S1Patterns,
         type |-> "numeric"],
     Fa |-> [label |-> <<"F", "a">>, patterns |-> FaPatterns,
         type |-> "numeric"],
     Fv |-> [label |-> <<"F", "v">>, patterns |-> FvPatterns,
         type |-> "numeric"],
     siteClass |-> [label |-> <<"S", "i", "t", "e", " ", "C", "l", "a", "s", "s">>, patterns |-> SiteClassPatterns,
                type |-> "category", validValues |-> {<<"A">>, <<"B">>, <<"C">>, <<"D">>, <<"E">>, <<"F">>}],
     riskCategory |-> [label |-> <<"R", "i", "s", "k", " ", "C", "a", "t", "e", "g", "o", "r", "y">>, patterns |-> RiskCategoryPatterns,
                   type |-> "category", validValues |-> {<<"I">>, <<"I", "I">>, <<"I", "I", "I">>, <<"I", "V">>}],
     seismicDesignCategory |-> [label |-> <<"S", "D", "C">>, patterns |-> SeismicDesignCategoryPatterns,
                            type |-> "category", validValues |-> {<<"A">>, <<"B">>, <<"C">>, <<"D">>, <<"E">>, <<"F">>}]]


\* ------------------------------------------------------------------------
\* geotechPatterns.js normalizeValue; geotechExtractor.js extractSeismicValues
\* ------------------------------------------------------------------------

\* the decimal digits of a natural number
RECURSIVE NaturalToString(_)
NaturalToString(n) ==
    IF n < 10 THEN <<DecimalDigits[n + 1]>>
    ELSE NaturalToString(n \div 10) \o <<DecimalDigits[(n % 10) + 1]>>

\* the digits of n, with zeros in front up to the width
RECURSIVE PadStart(_, _)
PadStart(digits, width) ==
    IF Len(digits) >= width THEN digits ELSE PadStart(<<"0">> \o digits, width)

RECURSIVE StripZeros(_)
StripZeros(digits) ==
    IF Len(digits) > 0 /\ digits[Len(digits)] = "0"
    THEN StripZeros(SubSeq(digits, 1, Len(digits) - 1)) ELSE digits

\* Number.prototype.toString of the double nearest to n / 10^d: the shortest
\* decimal that reads back as the same double, which for a literal of at most
\* 15 significant digits between 1e-6 and 1e21 is the literal itself without
\* the zeros in front of the whole part and at the end of the fraction
NumberToString(n, d) ==
    LET whole == NaturalToString(n \div Pow10(d))
        fraction == StripZeros(PadStart(NaturalToString(n % Pow10(d)), d))
    IN IF Len(fraction) = 0 THEN whole ELSE whole \o <<".">> \o fraction

normalizeValue(value, type) ==
    IF type = "numeric"
    THEN IF DecimalLiteral(value).isNaN THEN value
         ELSE NumberToString(DecimalLiteral(value).n, DecimalLiteral(value).d)
    ELSE IF type = "category"
    THEN Trim(toUpperCase(value))
    ELSE Trim(value)

\* String.prototype.includes
includes(str, part) ==
    \E i \in 1 .. Len(str) - Len(part) + 1 :
        SubSeq(str, i, i + Len(part) - 1) = part

\* String.prototype.substring for 0 <= start <= end
substring(str, start, end) == SubSeq(str, start + 1, Min2(end, Len(str)))

\* calculateConfidence, in tenths
calculateConfidence(matchedText, label) ==
    Min2(5 + (IF includes(toLowerCase(matchedText), toLowerCase(label))
              THEN 3 ELSE 0)
           + (IF includes(matchedText, <<"=">>) \/ includes(matchedText, <<":">>)
              THEN 2 ELSE 0),
         10)

ContextRadius == 100

\* the text around a match, in upper case
Context(fullText, match) ==
    toUpperCase(substring(fullText, Max2(0, match.index - ContextRadius),
                          Min2(Len(fullText), match.index + ContextRadius)))

\* the priority of a match, from the text around it
Priority(fullText, match) ==
    IF \/ includes(Context(fullText, match),
                   <<"S", "I", "T", "E", " ", "S", "P", "E", "C", "I", "F", "I", "C">>)
       \/ includes(Context(fullText, match),
                   <<"S", "I", "T", "E", "-", "S", "P", "E", "C", "I", "F", "I", "C">>)
    THEN 2
    ELSE IF /\ ~includes(Context(fullText, match), <<"A", "S", "C", "E">>)
            /\ ~includes(Context(fullText, match),
                         <<"S", "E", "C", "T", "I", "O", "N", " ", "1", "1">>)
    THEN 1
    ELSE 0

\* the matches the loop does not skip: a captured value, and for a category
\* one of the valid values
Usable(config, match) ==
    /\ Len(match.group1) > 0
    /\ config.type = "category" =>
          Trim(toUpperCase(match.group1)) \in config.validValues

\* bestMatch after the loop over the matches of one pattern on one page: the
\* first usable match of the highest priority (priority > bestPriority keeps
\* the earlier of two equal ones); Null if no match is usable
BestMatch(config, fullText, matches) ==
    LET usable == { k \in 1 .. Len(matches) : Usable(config, matches[k]) }
    IN IF usable = {} THEN Null
       ELSE matches[CHOOSE k \in usable :
                \A j \in usable :
                    \/ Priority(fullText, matches[j]) < Priority(fullText, matches[k])
                    \/ /\ Priority(fullText, matches[j]) = Priority(fullText, matches[k])
                       /\ k <= j]

\* the loops with the pages outside and the patterns inside
SearchOrderByPage(config, pages) ==
    [n \in 1 .. Len(config.patterns) * Len(pages) |->
        <<((n - 1) % Len(config.patterns)) + 1, ((n - 1) \div Len(config.patterns)) + 1>>]

\* the pairs <<pattern, page>> in the order of the two loops
SearchOrder(config, pages) ==
    [n \in 1 .. Len(config.patterns) * Len(pages) |->
        <<((n - 1) \div Len(pages)) + 1, ((n - 1) % Len(pages)) + 1>>]

BestMatchAt(config, pages, at) ==
    BestMatch(config, pages[at[2]].fullText,
              matchAll(pages[at[2]].fullText, config.patterns[at[1]]))

\* null where a string may stand: every string of the model is a sequence of
\* strings of one character
NullValue == <<"null">>

\* extractedValues[key]: the value of the first pattern, and for it the first
\* page, with a best match
ExtractedValue(config, pages) ==
    LET order == SearchOrder(config, pages)
        hits == { n \in 1 .. Len(order) : BestMatchAt(config, pages, order[n]) # Null }
    IN IF hits = {}
       THEN [label |-> config.label, value |-> NullValue, pageNumber |-> Null,
             confidence |-> 0, type |-> config.type]
       ELSE LET at == order[CHOOSE n \in hits : \A j \in hits : n <= j]
                bestMatch == BestMatchAt(config, pages, at)
            IN [label |-> config.label,
                value |-> normalizeValue(bestMatch.group1, config.type),
                pageNumber |-> pages[at[2]].pageNumber,
                confidence |-> calculateConfidence(bestMatch.whole, config.label),
                type |-> config.type]

extractSeismicValues(pages) ==
    [key \in Range(SeismicKeys) |-> ExtractedValue(SEISMIC_PATTERNS[key], pages)]

\* ------------------------------------------------------------------------
\* geotechExtractor.js: findGeneralNotesSection
\* ------------------------------------------------------------------------
\* headingPatterns of findGeneralNotesSection
headingPatterns ==
    << Concat(<<Lit(<<"L", "A", "T", "E", "R", "A", "L">>), Plus(Space),
         Lit(<<"L", "O", "A", "D", "S">>), Plus(Space), Lit(<<"S", "E", "I",
         "S", "M", "I", "C", ":">>)>>),
       Lit(<<"S", "E", "I", "S", "M", "I", "C", ":">>),
       Concat(<<Lit(<<"G", "E", "N", "E", "R", "A", "L">>), Plus(Space),
         Lit(<<"N", "O", "T", "E">>), Opt(Lit(<<"S">>))>>),
       Concat(<<Lit(<<"G", "E", "N", ".">>), Plus(Space), Lit(<<"N", "O",
         "T", "E">>), Opt(Lit(<<"S">>))>>),
       Concat(<<Lit(<<"S", "T", "R", "U", "C", "T", "U", "R", "A", "L">>),
         Plus(Space), Lit(<<"N", "O", "T", "E">>), Opt(Lit(<<"S">>))>>),
       Concat(<<Lit(<<"S", "E", "I", "S", "M", "I", "C">>), Plus(Space),
         Lit(<<"D", "E", "S", "I", "G", "N">>), Plus(Space), Lit(<<"C", "R",
         "I", "T", "E", "R", "I", "A">>)>>) >>

\* A value where a number may stand: a number, undefined or NaN
Undefined == [kind |-> "undefined"]
NotANumber == [kind |-> "NaN"]
Number(n) == [kind |-> "number", n |-> n]

\* value + n
Sum(value, n) ==
    IF value.kind = "number" THEN Number(value.n + n) ELSE NotANumber

\* an argument of substring as a position of the string: undefined and NaN
\* are 0
Position(value, str) ==
    IF value.kind = "number" THEN Max2(0, Min2(value.n, Len(str))) ELSE 0

\* String.prototype.substring(start, end)
substringOf(str, start, end) ==
    SubSeq(str, Min2(Position(start, str), Position(end, str)) + 1,
           Max2(Position(start, str), Position(end, str)))

\* String.prototype.match with a pattern of flag g: null, or the array of
\* the matched strings, which has no property index
match(str, pattern) ==
    LET all == matchAll(str, pattern)
    IN IF Len(all) = 0 THEN [isNull |-> TRUE]
       ELSE [isNull |-> FALSE, index |-> Undefined,
             strings |-> [k \in 1 .. Len(all) |-> all[k].whole]]

WindowLength == 2000

HasFullText(page) == "fullText" \in DOMAIN page

\* a heading pattern matches the page
HasHeading(page) ==
    \E p \in 1 .. Len(headingPatterns) :
        ~match(page.fullText, headingPatterns[p]).isNull

\* what a function leaves: the value it returns, or the message of the error
\* it throws
Returns(value) == [threw |-> FALSE, value |-> value]
Throws(message) == [threw |-> TRUE, message |-> message]

FullTextUndefined ==
    <<"Cannot read properties of undefined (reading 'match')">>

\* the object returned for a page and the match of a heading pattern on it
NotesWindow(page, found) ==
    [pageNumber |-> page.pageNumber,
     text |-> substringOf(page.fullText, found.index,
                          Sum(found.index, WindowLength)),
     startIndex |-> found.index,
     fallback |-> FALSE]

\* the loop over headingPatterns from the p-th on: the match of the first
\* pattern that matches the page, null if none does
RECURSIVE HeadingMatchFrom(_, _)
HeadingMatchFrom(page, p) ==
    IF p > Len(headingPatterns) THEN [isNull |-> TRUE]
    ELSE Then(match(page.fullText, headingPatterns[p]),
              LAMBDA found :
                  IF found.isNull THEN HeadingMatchFrom(page, p + 1)
                  ELSE found)

\* the loop over pages from the g-th on, then the fallback to the first
\* page.  fallback = FALSE stands for an object without the property.
RECURSIVE NotesSectionFrom(_, _)
NotesSectionFrom(pages, g) ==
    IF g > Len(pages)
    THEN IF Len(pages) > 0
         THEN Returns([pageNumber |-> pages[1].pageNumber,
                       text |-> pages[1].fullText,
                       startIndex |-> Number(0),
                       fallback |-> TRUE])
         ELSE Returns(Null)
    ELSE IF ~HasFullText(pages[g]) THEN Throws(FullTextUndefined)
    ELSE Then(HeadingMatchFrom(pages[g], 1),
              LAMBDA found :
                  IF found.isNull THEN NotesSectionFrom(pages, g + 1)
                  ELSE Returns(NotesWindow(pages[g], found)))

\* the search that looks at the first page only
NotesOfFirstPage(pages) ==
    NotesSectionFrom(SubSeq(pages, 1, Min2(1, Len(pages))), 1)

\* findGeneralNotesSection; a page without fullText makes page.fullText.match
\* throw a TypeError
findGeneralNotesSection(pages) == NotesSectionFrom(pages, 1)

\* ------------------------------------------------------------------------
\* geotechExtractor.js: compareValuesInNotes
\* ------------------------------------------------------------------------

\* !expected.value is false: the value is neither null nor the empty string
HasValue(expected) == expected.value # NullValue /\ Len(expected.value) > 0

MatchEntry(key, expected, found) ==
    [parameter |-> key, label |-> expected.label, value |-> expected.value,
     foundValue |-> found]

MismatchEntry(key, expected, found) ==
    [parameter |-> key, label |-> expected.label,
     expectedValue |-> expected.value, foundValue |-> found]

MissingEntry(key, expected) ==
    [parameter |-> key, label |-> expected.label,
     expectedValue |-> expected.value]

RequireUndefined == <<"require is not defined">>

\* the loop over config.patterns from the p-th on: foundInNotes, and
\* foundValue, the normalized value of the first match of the first pattern
\* that matches
RECURSIVE FoundFrom(_, _, _)
FoundFrom(notesText, config, p) ==
    IF p > Len(config.patterns) THEN [foundInNotes |-> FALSE]
    ELSE Then(matchAll(notesText, config.patterns[p]),
              LAMBDA matches :
                  IF Len(matches) > 0
                  THEN [foundInNotes |-> TRUE,
                        foundValue |-> normalizeValue(matches[1].group1,
                                                      config.type)]
                  ELSE FoundFrom(notesText, config, p + 1))

\* the lists after the parameter key, found in the notes, has been compared
Compared(lists, key, expected, found) ==
    IF valuesMatch(expected.value, found, expected.type)
    THEN [lists EXCEPT !.matches = Append(@, MatchEntry(key, expected, found))]
    ELSE [lists EXCEPT
            !.mismatches = Append(@, MismatchEntry(key, expected, found))]

\* the loop over Object.entries(expectedValues) from the k-th key on.  The
\* module is an ES module, and the loop calls require('./geotechPatterns.js')
\* for every parameter it finds in the notes: where the environment defines
\* no require (a browser running the bundle of vite.config.js, which converts
\* CommonJS of node_modules only), the call throws a ReferenceError;
\* requireDefined tells whether one is defined.
RECURSIVE CompareFrom(_, _, _, _, _)
CompareFrom(notesText, expectedValues, requireDefined, k, lists) ==
    IF k > Len(SeismicKeys) THEN Returns(lists)
    ELSE IF ~HasValue(expectedValues[SeismicKeys[k]])
    THEN CompareFrom(notesText, expectedValues, requireDefined, k + 1, lists)
    ELSE Then(FoundFrom(notesText, SEISMIC_PATTERNS[SeismicKeys[k]], 1),
              LAMBDA hit :
                  IF ~hit.foundInNotes
                  THEN CompareFrom(notesText, expectedValues, requireDefined,
                          k + 1,
                          [lists EXCEPT !.missing =
                              Append(@, MissingEntry(SeismicKeys[k],
                                         expectedValues[SeismicKeys[k]]))])
                  ELSE IF ~requireDefined THEN Throws(RequireUndefined)
                  ELSE CompareFrom(notesText, expectedValues, requireDefined,
                          k + 1,
                          Compared(lists, SeismicKeys[k],
                                   expectedValues[SeismicKeys[k]],
                                   hit.foundValue)))

compareValuesInNotes(notesText, expectedValues, requireDefined) ==
    CompareFrom(notesText, expectedValues, requireDefined, 1,
                [matches |-> <<>>, mismatches |-> <<>>, missing |-> <<>>])

\* ------------------------------------------------------------------------
\* geotechVerification.js: findParameterPosition, detectGeotechMismatches
\* ------------------------------------------------------------------------
\* the search terms of findParameterPosition
searchTerms ==
    [Sds |-> <<<<"S", "D", "S">>, <<"S", "_", "D", "S">>, <<"S", " ",
         "D", "S">>>>,
     Sd1 |-> <<<<"S", "D", "1">>, <<"S", "_", "D", "1">>, <<"S", " ",
         "D", "1">>>>,
     Sms |-> <<<<"S", "M", "S">>, <<"S", "_", "M", "S">>, <<"S", " ",
         "M", "S">>>>,
     Sm1 |-> <<<<"S", "M", "1">>, <<"S", "_", "M", "1">>, <<"S", " ",
         "M", "1">>>>,
     Ss |-> <<<<"S", "S">>, <<"S", "_", "S">>, <<"S", " ", "S">>,
         <<"S", "s">>>>,
     S1 |-> <<<<"S", "1">>, <<"S", "_", "1">>, <<"S", " ", "1">>>>,
     Fa |-> <<<<"F", "A">>, <<"F", "_", "A">>, <<"F", " ", "A">>>>,
     Fv |-> <<<<"F", "V">>, <<"F", "_", "V">>, <<"F", " ", "V">>>>,
     siteClass |-> <<<<"S", "I", "T", "E", " ", "C", "L", "A", "S",
         "S">>, <<"S", "i", "t", "e", " ", "C", "l", "a", "s", "s">>, <<"S",
         "I", "T", "E">>, <<"C", "L", "A", "S", "S">>>>,
     riskCategory |-> <<<<"R", "I", "S", "K", " ", "C", "A", "T",
         "E", "G", "O", "R", "Y">>, <<"R", "i", "s", "k", " ", "C", "a", "t",
         "e", "g", "o", "r", "y">>, <<"R", "I", "S", "K">>>>,
     seismicDesignCategory |-> <<<<"S", "E", "I", "S", "M", "I", "C",
         " ", "D", "E", "S", "I", "G", "N", " ", "C", "A", "T", "E", "G", "O",
         "R", "Y">>, <<"S", "e", "i", "s", "m", "i", "c", " ", "D", "e", "s",
         "i", "g", "n", " ", "C", "a", "t", "e", "g", "o", "r", "y">>, <<"S",
         "D", "C">>, <<"C", "A", "T", "E", "G", "O", "R", "Y">>>>]

\* /[\d\.]+|[A-F]|I{1,3}|IV/.test(text): the text holds a digit, a point, a
\* letter from A to F or an I
LooksLikeValue(text) ==
    \E i \in 1 .. Len(text) :
        text[i] \in Range(DecimalDigits) \cup {".", "A", "B", "C", "D", "E", "F", "I"}

LookAhead == 10

\* the position returned for the label item textItems[i]: the items after
\* it, up to the one before textItems[i + 10], widen the box to the value
LabelPosition(textItems, i) ==
    LET item == textItems[i]
        values == { j \in i + 1 .. Min2(i + LookAhead - 1, Len(textItems)) :
                      LooksLikeValue(textItems[j].text) }
        edges == { item.x + item.width }
                 \cup { textItems[j].x + textItems[j].width : j \in values }
        heights == { item.height } \cup { textItems[j].height : j \in values }
        maxX == CHOOSE a \in edges : \A b \in edges : a >= b
        combinedHeight == CHOOSE a \in heights : \A b \in heights : a >= b
    IN [x |-> item.x, y |-> item.y,
        width |-> Max2(maxX - item.x, 100),
        height |-> Max2(combinedHeight, 20)]

\* the first search term, and for it the first item, whose text holds the
\* term; Null if no item holds a term
findParameterPosition(textItems, parameterKey) ==
    LET terms == searchTerms[parameterKey]
        holds(t, i) == includes(toUpperCase(textItems[i].text),
                                toUpperCase(terms[t]))
        found == { t \in 1 .. Len(terms) :
                     \E i \in 1 .. Len(textItems) : holds(t, i) }
    IN IF found = {} THEN Null
       ELSE LET t == CHOOSE t \in found : \A u \in found : t <= u
                i == CHOOSE i \in 1 .. Len(textItems) :
                        /\ holds(t, i)
                        /\ \A j \in 1 .. i - 1 : ~holds(t, j)
            IN LabelPosition(textItems, i)

SCALE == 3

\* { ...entry, x: position.x * SCALE, ... }
AtPosition(entry, position) ==
    [name \in DOMAIN entry \cup {"x", "y", "width", "height"} |->
        CASE name = "x" -> position.x * SCALE
          [] name = "y" -> position.y * SCALE
          [] name = "width" -> position.width * SCALE
          [] name = "height" -> position.height * SCALE
          [] OTHER -> entry[name]]

\* entries.map(...).filter(Boolean): the entries whose parameter has a
\* position, with that position; the others are dropped
WithLocations(entries, textItems) ==
    Flatten([k \in 1 .. Len(entries) |->
        Then(findParameterPosition(textItems, entries[k].parameter),
             LAMBDA position :
                 IF position = Null THEN <<>>
                 ELSE <<AtPosition(entries[k], position)>>)])

NoGeotechData ==
    <<"No geotechnical report data available for verification">>
NoPdfPages ==
    <<"Text verification requires PDF upload (images not supported)">>
NotesNotFound == <<"GENERAL NOTES section not found in drawing">>

\* the result of a verification that did not take place
ZeroResult(message) ==
    [detected |-> FALSE, count |-> 0, matches |-> <<>>, mismatches |-> <<>>,
     missing |-> <<>>, message |-> message]

\* an async function that returns, and one that throws
GeotechResolves(value, reported) ==
    [promise |-> "resolved", value |-> value, progress |-> reported]

GeotechRejects(message, reported) ==
    [promise |-> "rejected", reason |-> message, progress |-> reported]

\* an error that leaves the function
ThrowVerificationError(message, reported) == GeotechRejects(message, reported)

\* the catch block
CatchVerificationError(message, reported) ==
    GeotechResolves(ZeroResult(<<"Verification error: ">> \o message), reported)

\* the object returned after the comparison
VerificationResult(comparison, notesSection, textItems) ==
    LET totalIssues == Len(comparison.mismatches) + Len(comparison.missing)
    IN [detected |-> totalIssues > 0,
        count |-> totalIssues,
        matches |-> WithLocations(comparison.matches, textItems),
        mismatches |-> WithLocations(comparison.mismatches, textItems),
        missing |-> comparison.missing,
        notesPageNumber |-> notesSection.pageNumber,
        message |-> IF totalIssues > 0
                    THEN <<"Found ", Len(comparison.mismatches),
                           " mismatch(es) and ", Len(comparison.missing),
                           " missing value(s)">>
                    ELSE <<"All ", Len(comparison.matches),
                           " seismic value(s) verified successfully">>]

\* pdfPages[0].items || []
ItemsOf(page) == IF "items" \in DOMAIN page THEN page.items ELSE <<>>

\* the try block once the notes section is found and compared
VerifiedAgainstNotes(comparison, notesSection, pages, hasOnProgress) ==
    IF comparison.threw THEN CatchVerificationError(comparison.message, <<>>)
    ELSE GeotechResolves(
             VerificationResult(comparison.value, notesSection,
                                ItemsOf(pages[1])),
             IF hasOnProgress
             THEN <<Len(comparison.value.mismatches)
                      + Len(comparison.value.missing)>>
             ELSE <<>>)

\* the try block once the search for the notes section has returned notes
SearchedNotes(notes, extractedValues, pages, hasOnProgress, requireDefined) ==
    IF notes.threw THEN CatchVerificationError(notes.message, <<>>)
    ELSE IF notes.value = Null
    THEN GeotechResolves(ZeroResult(NotesNotFound), <<>>)
    ELSE Then(compareValuesInNotes(notes.value.text, extractedValues,
                                   requireDefined),
              LAMBDA comparison :
                  VerifiedAgainstNotes(comparison, notes.value, pages,
                                       hasOnProgress))

\* detectGeotechMismatches(imageData, geotechData, pdfPages, onProgress).
\* geotechData and pdfPages are null, or hold what the caller passed
detectGeotechMismatches(data, pdfPages, hasOnProgress, requireDefined) ==
    IF data.isNull \/ ~data.hasExtractedValues
    THEN GeotechResolves(ZeroResult(NoGeotechData), <<>>)
    ELSE IF pdfPages.isNull \/ Len(pdfPages.pages) = 0
    THEN GeotechResolves(ZeroResult(NoPdfPages), <<>>)
    ELSE Then(findGeneralNotesSection(pdfPages.pages),
              LAMBDA notes :
                  SearchedNotes(notes, data.extractedValues, pdfPages.pages,
                                hasOnProgress, requireDefined))

\* ------------------------------------------------------------------------
\* SpecGeotech: one call of a function of the geotechnical check
\* ------------------------------------------------------------------------
\* values as a report or a drawing writes them
NumericTexts ==
    { <<"0", ".", "7", "7", "0">>, <<"0", ".", "7", "7", "5">>,
      <<"0", ".", "7", "7">>, <<"0", ".", "7", "8">>, <<"1", ".", "2">>,
      <<"1", ".", "2", "0">>, <<"1", ".", "2", "0", "5">>,
      <<"0", ".", "5">>, <<"0", ".", "5", "0", "5">>,
      <<"0", ".", "0", "1">>, <<"0", ".", "0", "0", "5">>, <<"1">>,
      <<" ", "0", ".", "7", "7">>, <<"0", ".", "7", "7", "g">>, <<>>,
      <<"D">> }

CategoryTexts ==
    { <<"d">>, <<"D">>, <<"E">>, <<" ", "D", " ">>, <<"I", "I">>,
      <<"i", "i">>, <<"i", "v">>, <<"I", "V", " ">> }

\* the rows of a report, as the text of a page holds them
AsceRow ==
    <<"S", "D", "S", " ", "(", "A", "S", "C", "E", " ", "1", "1", ".",
      "4", ")", ":", " ", "1", ".", "2", "0">>

SiteSpecificRow ==
    <<"S", "D", "S", " ", "(", "S", "i", "t", "e", " ", "S", "p", "e",
      "c", "i", "f", "i", "c", ")", ":", " ", "0", ".", "9", "5">>

AsceValue ==
    <<"A", "S", "C", "E", " ", "7", "-", "1", "6", " ", "S", "D", "S",
      ":", " ", "1", ".", "2", "0">>

SiteSpecificValue ==
    <<"S", "i", "t", "e", " ", "S", "p", "e", "c", "i", "f", "i", "c",
      " ", "S", "D", "S", ":", " ", "0", ".", "9", "5">>

SiteSpecificEquals ==
    <<"S", "i", "t", "e", "-", "S", "p", "e", "c", "i", "f", "i", "c",
      " ", "S", "d", "s", " ", "=", " ", "0", ".", "9", "5", "0">>

PlainValue ==
    <<"S", "D", "S", ":", " ", "1", ".", "1", "0">>

OtherValue ==
    <<"S", "D", "S", ":", " ", "1", ".", "3">>

OtherParameters ==
    <<"S", "i", "t", "e", " ", "C", "l", "a", "s", "s", ":", " ", "D",
      ",", " ", "R", "i", "s", "k", " ", "C", "a", "t", "e", "g", "o", "r",
      "y", " ", "I", "I", ",", " ", "S", "D", "C", " ", "=", " ", "d", ",",
      " ", "S", "s", " ", "=", " ", "1", ".", "5", "0", " ", "S", "1", " ",
      "=", " ", "0", ".", "6", " ", "F", "a", ":", " ", "1", ".", "0", " ",
      "S", "i", "t", "e", " ", "C", "l", "a", "s", "s", ":", " ", "X">>

\* as many characters as the context reaches to one side
Filler == [i \in 1 .. ContextRadius |-> "."]

Page(pageNumber, fullText) == [pageNumber |-> pageNumber, fullText |-> fullText]

\* the reports extractSeismicValues is called with
Reports ==
    << <<Page(1, AsceRow \o <<" ">> \o SiteSpecificRow)>>,
       <<Page(1, AsceRow \o <<"\n">> \o SiteSpecificRow)>>,
       <<Page(1, AsceValue \o Filler \o SiteSpecificValue)>>,
       <<Page(1, AsceValue \o <<" ">> \o SiteSpecificValue)>>,
       <<Page(1, PlainValue \o Filler \o AsceValue)>>,
       <<Page(1, AsceValue \o Filler \o PlainValue)>>,
       <<Page(1, PlainValue \o <<" ">> \o OtherValue)>>,
       <<Page(1, OtherParameters)>>,
       <<Page(1, SiteSpecificEquals), Page(2, AsceValue)>>,
       <<Page(1, OtherParameters),
         Page(2, AsceValue \o Filler \o SiteSpecificValue)>>,
       <<>> >>

\* texts of drawing pages
TitleBlock ==
    <<"P", "R", "O", "J", "E", "C", "T", " ", "1", "2", " ", "S", "H",
      "E", "E", "T", " ", "S", "-", "0", "0", "1", " ">>

SeismicHeading ==
    <<"L", "A", "T", "E", "R", "A", "L", " ", "L", "O", "A", "D", "S",
      " ", "S", "E", "I", "S", "M", "I", "C", ":", " ">>

NotesHeading ==
    <<"G", "e", "n", "e", "r", "a", "l", " ", " ", "N", "o", "t", "e",
      "s", " ", "1", ".", " ">>

NotesValues ==
    <<"S", "D", "S", ":", " ", "1", ".", "2", "0", " ", "S", "I", "T",
      "E", " ", "C", "L", "A", "S", "S", ":", " ", "D", " ", "S", "S", " ",
      "=", " ", "1", ".", "5", " ", "S", "D", "C", " ", "=", " ", "E">>

NotesOtherValues ==
    <<"S", "d", "s", " ", "=", " ", "1", ".", "2", "0", "4", ",", " ",
      "S", "i", "t", "e", " ", "C", "l", "a", "s", "s", ":", " ", "X", ",",
      " ", "S", "1", " ", "=", " ", "0", ".", "6">>

\* more text than the window is long
LongNotes == [i \in 1 .. WindowLength + ContextRadius |-> "."]

\* the pages of a drawing as extractTextFromPDF gives them, without their
\* items
Drawings ==
    << <<Page(1, SeismicHeading \o NotesValues)>>,
       <<Page(1, TitleBlock \o NotesHeading \o NotesValues)>>,
       <<Page(1, TitleBlock), Page(2, TitleBlock \o NotesHeading \o NotesOtherValues)>>,
       <<Page(1, TitleBlock \o NotesHeading \o SeismicHeading \o NotesValues)>>,
       <<Page(1, TitleBlock \o NotesHeading \o LongNotes)>>,
       <<Page(1, TitleBlock \o NotesValues)>>,
       <<Page(1, TitleBlock), Page(2, NotesOtherValues)>>,
       <<Page(1, <<>>)>>,
       <<Page(1, TitleBlock \o NotesHeading \o NotesValues),
         Page(2, SeismicHeading \o NotesOtherValues)>>,
       <<>> >>

\* extractedValues with the values known, as extractSeismicValues leaves
\* them
ExtractedValues(known) ==
    [key \in Range(SeismicKeys) |->
        [label |-> SEISMIC_PATTERNS[key].label,
         value |-> IF key \in DOMAIN known THEN known[key] ELSE NullValue,
         pageNumber |-> IF key \in DOMAIN known THEN 1 ELSE Null,
         confidence |-> IF key \in DOMAIN known THEN 10 ELSE 0,
         type |-> SEISMIC_PATTERNS[key].type]]

\* the values of geotechnical reports
GeotechValues ==
    << ExtractedValues("Sds" :> <<"1", ".", "2">> @@ "siteClass" :> <<"D">>
                       @@ "Ss" :> <<"1", ".", "5">> @@ "Fv" :> <<"1", ".", "5">>),
       ExtractedValues("Sds" :> <<"1", ".", "2", "0", "5">>
                       @@ "seismicDesignCategory" :> <<"D">>
                       @@ "S1" :> <<"0", ".", "6">>),
       ExtractedValues("riskCategory" :> <<"I", "I">>),
       ExtractedValues([key \in {} |-> <<>>]) >>

\* notes texts: with values, without, and the empty text
NotesTexts == <<NotesValues, NotesOtherValues, TitleBlock, <<>> >>

\* an item of a page as extractTextFromPDF gives it
TextAt(text, x, y, width, height) ==
    [text |-> text, x |-> x, y |-> y, width |-> width, height |-> height]

HeadingItem ==
    TextAt(<<"S", "E", "I", "S", "M", "I", "C", ":">>, 100, 40, 60, 10)

SdsLabelItem ==
    TextAt(<<"S", "D", "S", ":">>, 100, 60, 30, 10)

SdsValueItem ==
    TextAt(<<"1", ".", "2", "0">>, 140, 60, 25, 12)

SiteClassItem ==
    TextAt(<<"S", "I", "T", "E", " ", "C", "L", "A", "S", "S", ":", " ",
      "D">>, 100, 80, 120, 25)

SsItem ==
    TextAt(<<"S", "S", " ", "=", " ", "1", ".", "5">>, 100, 120, 50, 10)

TitleItem ==
    TextAt(<<"S", "H", "E", "E", "T", " ", "S", "-", "0", "0", "1">>,
      10, 10, 80, 10)

\* a label set as a letter and its subscript, two items of the page
SplitLabelItem ==
    TextAt(<<"S">>, 100, 60, 8, 10)

SubscriptItem ==
    TextAt(<<"D", "S", ":", " ", "1", ".", "3", "0">>, 108, 62, 40, 8)

\* items.map(item => item.text).join(' ')
RECURSIVE JoinTexts(_)
JoinTexts(items) ==
    IF Len(items) = 0 THEN <<>>
    ELSE IF Len(items) = 1 THEN items[1].text
    ELSE JoinTexts(SubSeq(items, 1, Len(items) - 1))
         \o <<" ">> \o items[Len(items)].text

\* a page as extractTextFromPDF gives it
DrawingPage(pageNumber, items) ==
    [pageNumber |-> pageNumber, items |-> items, fullText |-> JoinTexts(items)]

\* what the caller passes as pdfPages: null, no page, pages of
\* extractTextFromPDF with and without a heading, and the pages of FileUpload,
\* which have no fullText
PdfPagesPool ==
    { [isNull |-> TRUE],
      [isNull |-> FALSE, pages |-> <<>>],
      [isNull |-> FALSE,
       pages |-> <<DrawingPage(1, <<HeadingItem, SdsLabelItem, SdsValueItem,
                                    SiteClassItem, SsItem>>)>>],
      [isNull |-> FALSE,
       pages |-> <<DrawingPage(1, <<TitleItem, SdsLabelItem, SdsValueItem,
                                    SiteClassItem, SsItem>>)>>],
      [isNull |-> FALSE,
       pages |-> <<DrawingPage(1, <<TitleItem>>),
                   DrawingPage(2, <<SsItem, SiteClassItem>>)>>],
      [isNull |-> FALSE,
       pages |-> <<DrawingPage(1, <<TitleItem, SplitLabelItem, SubscriptItem,
                                    SiteClassItem>>)>>],
      [isNull |-> FALSE,
       pages |-> <<PageOf(<<>>, CHOOSE v \in Viewports : TRUE)>>] }

\* what the caller passes as geotechData: null, an object without
\* extractedValues, and the data of a report
GeotechDataPool ==
    { [isNull |-> TRUE],
      [isNull |-> FALSE, hasExtractedValues |-> FALSE] }
    \cup { [isNull |-> FALSE, hasExtractedValues |-> TRUE,
            extractedValues |-> GeotechValues[v]] : v \in {1, 2, 4} }

GeoInit == geo = NoGeoCall

CallValuesMatch ==
    /\ geo = NoGeoCall
    /\ \E type \in {"numeric", "category", "text"} :
       \E value1, value2 \in IF type = "numeric" THEN NumericTexts
                             ELSE CategoryTexts :
          geo' = [op |-> "valuesMatch", value1 |-> value1, value2 |-> value2,
                  type |-> type, result |-> valuesMatch(value1, value2, type)]
    /\ UNCHANGED notGeoVars

CallExtractSeismicValues ==
    /\ geo = NoGeoCall
    /\ \E r \in 1 .. Len(Reports) :
          geo' = [op |-> "extractSeismicValues", pages |-> Reports[r],
                  result |-> extractSeismicValues(Reports[r])]
    /\ UNCHANGED notGeoVars

CallFindGeneralNotesSection ==
    /\ geo = NoGeoCall
    /\ \E d \in 1 .. Len(Drawings) :
          geo' = [op |-> "findGeneralNotesSection", pages |-> Drawings[d],
                  result |-> findGeneralNotesSection(Drawings[d])]
    /\ UNCHANGED notGeoVars

CallCompareValuesInNotes ==
    /\ geo = NoGeoCall
    /\ \E n \in 1 .. Len(NotesTexts), v \in 1 .. Len(GeotechValues),
          requireDefined \in BOOLEAN :
          geo' = [op |-> "compareValuesInNotes", notesText |-> NotesTexts[n],
                  expectedValues |-> GeotechValues[v],
                  requireDefined |-> requireDefined,
                  result |-> compareValuesInNotes(NotesTexts[n], GeotechValues[v],
                                                  requireDefined)]
    /\ UNCHANGED notGeoVars

\* await detectGeotechMismatches(imageData, geotechData, pdfPages, onProgress)
CallDetectGeotechMismatches ==
    /\ geo = NoGeoCall
    /\ \E data \in GeotechDataPool, pdfPages \in PdfPagesPool,
          hasOnProgress \in BOOLEAN, requireDefined \in BOOLEAN :
          geo' = [op |-> "detectGeotechMismatches", geotechData |-> data,
                  pdfPages |-> pdfPages, hasOnProgress |-> hasOnProgress,
                  requireDefined |-> requireDefined,
                  result |-> detectGeotechMismatches(data, pdfPages,
                                                     hasOnProgress,
                                                     requireDefined)]
    /\ UNCHANGED notGeoVars

\* a word between a label and its value
FillerItem ==
    TextAt(<<"o", "f">>, 135, 60, 5, 10)

\* a value set far to the right of its label
FarValueItem ==
    TextAt(<<"1", ".", "2", "0">>, 600, 60, 25, 30)

\* the items of a page: a label with its value next to it, a label with
\* its value 9 and 10 items after it, and a page without a label
TextItemLists ==
    { <<HeadingItem, SdsLabelItem, SdsValueItem, SiteClassItem, SsItem>>,
      <<SdsLabelItem>> \o [k \in 1 .. LookAhead - 2 |-> FillerItem]
          \o <<FarValueItem>>,
      <<SdsLabelItem>> \o [k \in 1 .. LookAhead - 1 |-> FillerItem]
          \o <<FarValueItem>>,
      <<TitleItem, SsItem, SiteClassItem>>,
      <<TitleItem>>,
      <<>> }

\* findParameterPosition(textItems, parameterKey)
CallFindParameterPosition ==
    /\ geo = NoGeoCall
    /\ \E textItems \in TextItemLists, parameterKey \in Range(SeismicKeys) :
          geo' = [op |-> "findParameterPosition", textItems |-> textItems,
                  parameterKey |-> parameterKey,
                  result |-> findParameterPosition(textItems, parameterKey)]
    /\ UNCHANGED notGeoVars

GeoNext ==
    \/ CallValuesMatch
    \/ CallExtractSeismicValues
    \/ CallFindGeneralNotesSection
    \/ CallCompareValuesInNotes
    \/ CallFindParameterPosition
    \/ CallDetectGeotechMismatches

InitGeotech ==
    /\ MergeIdle
    /\ ScanIdle
    /\ TextIdle
    /\ CallIdle
    /\ AppIdle
    /\ GeoInit

SpecGeotech == InitGeotech /\ [][GeoNext]_vars

\* ------------------------------------------------------------------------
\* Properties of the region merger (checked under SpecMerge)
\* ------------------------------------------------------------------------
Perms(n) == { f \in [1..n -> 1..n] : \A i, j \in 1..n : f[i] = f[j] => i = j }

Permute(seq, f) == [i \in 1..Len(seq) |-> seq[f[i]]]

\* C2: the merger is idempotent: merging its own output again returns the
\* same list of boxes with the same pixel counts.
C2_MergeIdempotent ==
    mPhase = "remerged" => mOut2 = mOut

\* a run in which three boxes needed more than one pass to become one box,
\* and the second application has been made
C2_Witness ==
    /\ mPhase = "remerged"
    /\ Len(mInput) = 3
    /\ Len(mOut) = 1
    /\ Len(MergePass(mInput, MergeDistanceOf(mKind)).newElements) = 2

\* C3: the merger is order-independent: every permutation of the input list
\* yields the same set of boxes with the same pixel counts (the order of the
\* output list may differ).
C3_MergeOrderIndependent ==
    mPhase \in {"merged", "remerged"} =>
        \A f \in Perms(Len(mInput)) :
            LET other == MergerOf(mKind, Permute(mInput, f))
            IN /\ Len(other) = Len(mOut)
               /\ Range(other) = Range(mOut)

\* a merged input, of which a permutation comes back in another output order
C3_Witness ==
    /\ mPhase = "merged"
    /\ Len(mOut) < Len(mInput)
    /\ Len(mOut) >= 2
    /\ \E f \in Perms(Len(mInput)) :
          MergerOf(mKind, Permute(mInput, f)) # mOut

\* ------------------------------------------------------------------------
\* Properties of the page scan (checked under SpecScan)
\* ------------------------------------------------------------------------
\* what must hold of the visited set and the traced regions at every moment
\* of a scan: every coordinate was added once (as many visited.add calls as
\* coordinates in the set), every traced region counted each of its pixels
\* once, and no pixel is a member of two traced regions
C4_EachPixelOnce ==
    /\ sAddCalls = Cardinality(sVisited)
    /\ \A i \in 1..Len(sTraced) :
          /\ sTraced[i].pixelCount = Cardinality(sTraced[i].members)
          /\ sTraced[i].members \subseteq sVisited
    /\ \A i, j \in 1..Len(sTraced) :
          i # j => sTraced[i].members \cap sTraced[j].members = {}

\* C4: during one page scan each pixel coordinate is added to the shared
\* visited set at most once and is counted in the pixelCount of at most one
\* traced region, and the visited set only grows.
C4_VisitedOnceAndGrowing ==
    /\ []C4_EachPixelOnce
    /\ [][sVisited \subseteq sVisited']_vars

\* a finished scan that traced two regions, one of them reaching over a
\* later seed position that was therefore not traced again
C4_Witness ==
    /\ sPhase = "done"
    /\ Len(sTraced) = 2
    /\ \E k \in 2..NumSeeds(sImg, sKind) :
          SeedAt(sImg, sKind, k) \in sTraced[1].members

\* ------------------------------------------------------------------------
\* Missing references: the pattern, the regions, the page without text items
\* ------------------------------------------------------------------------
\* the texts the pattern describes, written out
PatternTexts ==
    { Dashes(a) \o <<"/">> \o Dashes(b) \o p :
        a \in 1 .. 4, b \in 1 .. 4,
        p \in { <<>>, <<".">>, <<",">>, <<";">>, <<":">> } }

\* the items of the page whose trimmed text is one of the pattern's texts
MatchingItems(pdfPage) ==
    SelectSeq(pdfPage.textItems, LAMBDA item : Trim(item.str) \in PatternTexts)

NoRefsChecked ==
    tPhase = "resolved" /\ tAnalyzer = "noRefs" /\ HasTextItems(tPdfPage)

\* C8: the missing-reference analyzer reports an item if and only if its
\* trimmed text is 1 to 4 dashes, a slash, 1 to 4 dashes and at most one of
\* . , ; : and it reports one region per such item, in the items' order,
\* duplicates included, so that count is the number of matching items.
C8_NoRefPatternAndCount ==
    /\ noRefPattern(Dashes(1) \o <<"/">> \o Dashes(3))
    /\ noRefPattern(Dashes(2) \o <<"/">> \o Dashes(4) \o <<".">>)
    /\ noRefPattern(Dashes(1) \o <<"/">> \o Dashes(1))
    /\ ~noRefPattern(<<"-", "\\", "-">>)
    /\ ~noRefPattern(Dashes(5) \o <<"/">> \o Dashes(1))
    /\ ~noRefPattern(<<"1", "/">> \o Dashes(3))
    /\ NoRefsChecked =>
        /\ tResult.count = Len(MatchingItems(tPdfPage))
        /\ Len(tResult.locations) = Len(MatchingItems(tPdfPage))
        /\ \A k \in 1 .. Len(tResult.locations) :
            /\ tResult.locations[k].text = Trim(MatchingItems(tPdfPage)[k].str)
            /\ tResult.locations[k].detectionMethod = "pdf-text"

\* a page holding the same matching item twice, next to nothing else, was
\* analysed and both copies were reported
C8_Witness ==
    /\ NoRefsChecked
    /\ Len(tPdfPage.textItems) = 2
    /\ tPdfPage.textItems[1] = tPdfPage.textItems[2]
    /\ Trim(tPdfPage.textItems[1].str) # tPdfPage.textItems[1].str
    /\ tResult.count = 2

\* the Coordinate Mapper's rule for a box of PDF space, in quarters
MappedBox(pdfX, pdfY, pdfWidth, pdfHeight, viewport) ==
    LET T == viewport.transform
        height == Ceil(pdfHeight * viewport.scale, Den * Den)
    IN [x |-> Floor(T[1] * pdfX + T[5] * Den, Den * Den),
        y |-> Floor(T[4] * pdfY + T[6] * Den, Den * Den) - height,
        width |-> Ceil(pdfWidth * viewport.scale, Den * Den),
        height |-> height]

BoxOf(region) ==
    [x |-> region.x, y |-> region.y, width |-> region.width,
     height |-> region.height]

\* the intersection of two items' boxes in PDF space, mapped
MappedIntersection(item1, item2, viewport) ==
    LET x == Max2(item1.transform[5], item2.transform[5])
        y == Max2(item1.transform[6], item2.transform[6])
        right == Min2(item1.transform[5] + item1.width,
                      item2.transform[5] + item2.width)
        top == Min2(item1.transform[6] + item1.height,
                    item2.transform[6] + item2.height)
    IN MappedBox(x, y, right - x, top - y, viewport)

NothingFoundMessage ==
    detectNoRefs(FALSE, PageOf(<<>>, CHOOSE v \in Viewports : TRUE)).result.message

\* C10: called without a pdfPage, or with one that has no textItems,
\* detectNoRefs resolves with detected = false, count = 0, no locations and
\* a message telling that the check could not be performed, which the
\* message of a check that ran and found nothing does not tell.
C10_UncheckedPageExplained ==
    (tPhase = "resolved" /\ tAnalyzer = "noRefs" /\ ~HasTextItems(tPdfPage)) =>
        /\ tResult.detected = FALSE
        /\ tResult.count = 0
        /\ tResult.locations = <<>>
        /\ tResult.message # NothingFoundMessage

\* ------------------------------------------------------------------------
\* Properties of the analyzer calls (checked under SpecCalls)
\* ------------------------------------------------------------------------
\* C1: whenever a call of detectRedElements, detectHighlights, detectNoRefs
\* or detectOverlappingText has resolved, the object it resolved with has
\* detected = (count > 0) and as many locations as count says.
C1_DetectedIffCounted ==
    call.promise = "resolved" =>
        /\ call.value.detected = (call.value.count > 0)
        /\ Len(call.value.locations) = call.value.count

\* the hybrid analyzer resolved with the one overlap it verified, after it
\* had dropped the pixel region found at the same place
C1_Witness ==
    /\ call.promise = "resolved"
    /\ call.analyzer = "overlappingText"
    /\ call.value.count = 1
    /\ "density" \in DOMAIN call.value.locations[1]
    /\ Len(FindElementsOf(call.imageData, "black")) = 1
    /\ call.progress = <<1, 1>>

\* C7: once the error event of the page image has been dispatched to an
\* analyzer that loads the image, the analyzer's promise is rejected.
C7_LoadFailureRejects ==
    call.imageEvent = "error" => call.promise = "rejected"

\* ------------------------------------------------------------------------
\* Properties of handleFileUpload (checked under Spec and FairSpec)
\* ------------------------------------------------------------------------
AnalyzerOrder == <<"redElements", "highlights", "noRefs", "overlappingText">>

IsPageAnalyzer(c) == c.analyzer \in Range(AnalyzerOrder)

\* the calls of the four page analyzers, in the order they were made
AnalyzerCalls == SelectSeq(calls, IsPageAnalyzer)

\* C5: the analyzer calls of an upload are made page by page in index order
\* and, within a page, in the order detectRedElements, detectHighlights,
\* detectNoRefs, detectOverlappingText; when a call is made every earlier
\* call has resolved, so page i+1 starts after all analyzers of page i have
\* resolved and no two calls are ever in flight together.
C5_OneAnalyzerAtATime ==
    /\ \A k \in 1 .. Len(AnalyzerCalls) :
          /\ AnalyzerCalls[k].page = ((k - 1) \div 4) + 1
          /\ AnalyzerCalls[k].page <= Len(upload.imagePages)
          /\ AnalyzerCalls[k].analyzer = AnalyzerOrder[((k - 1) % 4) + 1]
    /\ \A k \in 1 .. Len(calls) - 1 : calls[k].promise = "resolved"
    /\ Cardinality({ k \in 1 .. Len(calls) : calls[k].promise = "pending" }) <= 1

\* a two-page document went through the geotechnical check and all eight
\* analyzer calls
C5_Witness ==
    /\ pc = "done"
    /\ ~results.isNull
    /\ Len(results.pages) = 2
    /\ Len(AnalyzerCalls) = 8
    /\ Len(calls) = 9
    /\ \A k \in 1 .. Len(calls) : calls[k].promise = "resolved"

RejectedCalls == { k \in 1 .. Len(calls) : calls[k].promise = "rejected" }

\* message occurs in text
Carries(text, message) ==
    \E i \in 0 .. Len(text) - Len(message) :
        SubSeq(text, i + 1, i + Len(message)) = message

\* the catch and finally blocks have run for the rejection of the k-th call
Caught(k) ==
    /\ pc = "done"
    /\ ~loading
    /\ "message" \in DOMAIN error
    /\ Carries(error.message, calls[k].value.message)

C6_NothingAfterRejection ==
    \A k \in RejectedCalls :
        /\ k = Len(calls)
        /\ results = Null
        /\ pc = "done" => Caught(k)

\* C6: once an analyzer call has rejected, no analyzer call is made any
\* more for that upload and results stays null; handleFileUpload comes to
\* its end with loading false and the error state set to a message that
\* carries the message of the rejection.
C6_RejectionIsTerminal ==
    /\ []C6_NothingAfterRejection
    /\ (RejectedCalls # {}) ~> (\A k \in RejectedCalls : Caught(k))

\* detectRedElements rejected on the second page, after the first page's
\* results had been collected
C6_Witness ==
    /\ RejectedCalls # {}
    /\ \A k \in RejectedCalls : calls[k].page = 2 /\ Caught(k)
    /\ Len(allPageResults) = 1
    /\ results = Null

\* ------------------------------------------------------------------------
\* Properties of the geotechnical check (checked under SpecGeotech)
\* ------------------------------------------------------------------------
\* the comparison of the values as they are written: the difference of the
\* two decimal numbers against 0.005
valuesMatchInDecimals(value1, value2, type) ==
    IF type = "numeric"
    THEN /\ ~DecimalLiteral(value1).isNaN
         /\ ~DecimalLiteral(value2).isNaN
         /\ LET a == DecimalLiteral(value1)
                b == DecimalLiteral(value2)
                scale == Max3(a.d, b.d, 3)
            IN Abs(a.n * Pow10(scale - a.d) - b.n * Pow10(scale - b.d))
                 <= 5 * Pow10(scale - 3)
    ELSE IF type = "category"
    THEN Trim(toUpperCase(value1)) = Trim(toUpperCase(value2))
    ELSE Trim(value1) = Trim(value2)

\* C11: valuesMatch is type-aware.  Two numeric values match exactly when
\* both parse as numbers and the values they write differ by at most 0.005,
\* the boundary included ("0.770" and "0.775" match); two category values
\* match exactly when they are equal after trimming and case folding.
C11_ValuesMatchTypeAware ==
    (geo.op = "valuesMatch" /\ geo.type \in {"numeric", "category"}) =>
        geo.result = valuesMatchInDecimals(geo.value1, geo.value2, geo.type)

\* the matches of the first pattern, and for it the first page, with a
\* match that is not skipped: the matches among which the priority decides
DecidingMatches(config, pages) ==
    LET order == SearchOrder(config, pages)
        matchesAt(n) ==
            SelectSeq(matchAll(pages[order[n][2]].fullText,
                               config.patterns[order[n][1]]),
                      LAMBDA m : Usable(config, m))
        hits == { n \in 1 .. Len(order) : Len(matchesAt(n)) > 0 }
    IN IF hits = {} THEN [matches |-> <<>>, fullText |-> <<>>]
       ELSE LET first == CHOOSE n \in hits : \A j \in hits : n <= j
            IN [matches |-> matchesAt(first),
                fullText |-> pages[order[first][2]].fullText]

\* C12: extractSeismicValues gives each parameter the value of the match of
\* the highest context priority among the several matches of the parameter,
\* the first of them if several have that priority, and for a page that
\* holds both "SDS (ASCE 11.4): 1.20" and "SDS (Site Specific): 0.95" the
\* extracted Sds is 0.95.
C12_HighestPriorityWins ==
    geo.op = "extractSeismicValues" =>
        /\ \A key \in Range(SeismicKeys) :
              LET config == SEISMIC_PATTERNS[key]
                  found == DecidingMatches(config, geo.pages)
                  priority(k) == Priority(found.fullText, found.matches[k])
              IN Len(found.matches) > 0 =>
                    \E k \in 1 .. Len(found.matches) :
                        /\ \A j \in 1 .. Len(found.matches) :
                              priority(j) <= priority(k)
                        /\ \A j \in 1 .. k - 1 : priority(j) < priority(k)
                        /\ geo.result[key].value
                             = normalizeValue(found.matches[k].group1, config.type)
        /\ (\E g \in 1 .. Len(geo.pages) :
                /\ includes(geo.pages[g].fullText, AsceRow)
                /\ includes(geo.pages[g].fullText, SiteSpecificRow))
              => geo.result["Sds"].value = <<"0", ".", "9", "5">>

\* the rule of the priority alone, without the example
PriorityDecidesAmongMatches ==
    geo.op = "extractSeismicValues" =>
        \A key \in Range(SeismicKeys) :
            LET config == SEISMIC_PATTERNS[key]
                found == DecidingMatches(config, geo.pages)
                priority(k) == Priority(found.fullText, found.matches[k])
            IN Len(found.matches) > 0 =>
                  \E k \in 1 .. Len(found.matches) :
                      /\ \A j \in 1 .. Len(found.matches) :
                            priority(j) <= priority(k)
                      /\ \A j \in 1 .. k - 1 : priority(j) < priority(k)
                      /\ geo.result[key].value
                           = normalizeValue(found.matches[k].group1, config.type)

\* ------------------------------------------------------------------------
\* Bubble exclusion of the pdf-text overlap method (checked under SpecText)
\* ------------------------------------------------------------------------

\* the item is a standalone detail reference, or its centre lies in the box
\* or within the radius of the bubble of one of the page's references
ExcludedFromOverlaps(item, pdfPage) ==
    \/ isStandaloneDetailReference(Trim(item.str))
    \/ isInsideBubble(At(item.transform, 4), At(item.transform, 5),
                      item.width, item.height,
                      findCalloutBubbles(pdfPage.textItems))

OverlappingTextChecked ==
    /\ tPhase = "resolved"
    /\ tAnalyzer = "overlappingText"
    /\ HasTextItems(tPdfPage)

PredicatePixels(img, kind) ==
    { p \in (0 .. img.width - 1) \X (0 .. img.height - 1) :
        PredicateOf(kind, PixelAt(img, p[1], p[2])) }

MinOf(S) == CHOOSE a \in S : \A b \in S : a <= b
MaxOf(S) == CHOOSE a \in S : \A b \in S : a >= b

\* x = minX, y = minY, width = maxX - minX, height = maxY - minY of pixels
BoxAround(pixels) ==
    LET xs == { p[1] : p \in pixels }
        ys == { p[2] : p \in pixels }
    IN [x |-> MinOf(xs), y |-> MinOf(ys),
        width |-> MaxOf(xs) - MinOf(xs), height |-> MaxOf(ys) - MinOf(ys)]

\* the pixels fill the box around them
SolidRectangle(pixels) ==
    /\ pixels # {}
    /\ Cardinality(pixels)
         = (BoxAround(pixels).width + 1) * (BoxAround(pixels).height + 1)

\* the object detectRedElements resolves with after the scan of the page
RedElementsResult == RedElementsReturn(FALSE, sMerged).result

RedRectangleScanned ==
    /\ sPhase = "done"
    /\ sKind = "red"
    /\ SolidRectangle(PredicatePixels(sImg, sKind))
    /\ Cardinality(PredicatePixels(sImg, sKind)) > RedNoiseThreshold

OneLocationCoveringRectangle ==
    /\ RedElementsResult.count = 1
    /\ Len(RedElementsResult.locations) = 1
    /\ BoxOf(RedElementsResult.locations[1])
         = BoxAround(PredicatePixels(sImg, sKind))

OnSampledGrid(pixels) ==
    /\ \E p \in pixels : p[1] % RedStride = 0 /\ p[2] % RedStride = 0
    /\ Cardinality(pixels) <= RedPixelCap

Neighbours(pixels, S) ==
    { p \in pixels : \E q \in S : Abs(p[1] - q[1]) + Abs(p[2] - q[2]) = 1 }

\* the pixels that steps inside pixels lead to from S
RECURSIVE Reachable(_, _)
Reachable(pixels, S) ==
    Then(S \cup Neighbours(pixels, S),
         LAMBDA next : IF next = S THEN S ELSE Reachable(pixels, next))

\* the 4-connected component of predicate pixels that holds the seed
Component(img, kind, seed) == Reachable(PredicatePixels(img, kind), {seed})

FirstHeading(pages) ==
    LET g == CHOOSE g \in 1 .. Len(pages) :
                /\ HasHeading(pages[g])
                /\ \A h \in 1 .. g - 1 : ~HasHeading(pages[h])
        p == CHOOSE p \in 1 .. Len(headingPatterns) :
                /\ Len(matchAll(pages[g].fullText, headingPatterns[p])) > 0
                /\ \A q \in 1 .. p - 1 :
                      Len(matchAll(pages[g].fullText, headingPatterns[q])) = 0
    IN [fullText |-> pages[g].fullText,
        at |-> matchAll(pages[g].fullText, headingPatterns[p])[1]]

\* C17: when a heading pattern matches a page, the notes text that
\* findGeneralNotesSection returns is the window of the page's text that
\* starts at the heading match and is 2000 characters long, or shorter if the
\* text ends earlier: it begins with the heading.
C17_WindowStartsAtHeading ==
    (/\ geo.op = "findGeneralNotesSection"
     /\ \E g \in 1 .. Len(geo.pages) : HasHeading(geo.pages[g]))
    => LET heading == FirstHeading(geo.pages)
       IN /\ ~geo.result.threw
          /\ geo.result.value.text
               = SubSeq(heading.fullText, heading.at.index + 1,
                        Min2(Len(heading.fullText),
                             heading.at.index + WindowLength))
          /\ SubSeq(geo.result.value.text, 1, Len(heading.at.whole))
               = heading.at.whole

\* ------------------------------------------------------------------------
\* The comparison with the notes (checked under SpecGeotech)
\* ------------------------------------------------------------------------

\* the parameters of a list of the comparison
ParametersOf(list) == { list[k].parameter : k \in 1 .. Len(list) }

\* the first hit of a parameter in the notes: the first match of the first
\* of its patterns that matches
FirstHit(notesText, key) ==
    LET patterns == SEISMIC_PATTERNS[key].patterns
        p == CHOOSE p \in 1 .. Len(patterns) :
                /\ Len(matchAll(notesText, patterns[p])) > 0
                /\ \A q \in 1 .. p - 1 : Len(matchAll(notesText, patterns[q])) = 0
    IN normalizeValue(matchAll(notesText, patterns[p])[1].group1,
                      SEISMIC_PATTERNS[key].type)

\* the lists partition the parameters with a known value as the claim says
PartitionOfKnown(notesText, expectedValues, lists) ==
    \A key \in Range(SeismicKeys) :
        LET expected == expectedValues[key]
            inNotes == \E p \in 1 .. Len(SEISMIC_PATTERNS[key].patterns) :
                          Len(matchAll(notesText,
                                       SEISMIC_PATTERNS[key].patterns[p])) > 0
            in == { l \in {"matches", "mismatches", "missing"} :
                      key \in ParametersOf(lists[l]) }
        IN IF expected.value = NullValue THEN in = {}
           ELSE /\ Cardinality(in) = 1
                /\ \A l \in in :
                      Cardinality({ k \in 1 .. Len(lists[l]) :
                                      lists[l][k].parameter = key }) = 1
                /\ ("missing" \in in) <=> ~inNotes
                /\ ("matches" \in in) <=>
                      (inNotes /\ valuesMatch(expected.value,
                                              FirstHit(notesText, key),
                                              expected.type))

\* C15: compareValuesInNotes returns lists in which every parameter with a
\* known geotech value stands exactly once (in missing iff no pattern of it
\* matches the notes, in matches iff the first hit equals the expected value
\* under valuesMatch, in mismatches otherwise), and a parameter without a
\* geotech value stands in none.
C15_ParametersPartitioned ==
    geo.op = "compareValuesInNotes" =>
        /\ ~geo.result.threw
        /\ PartitionOfKnown(geo.notesText, geo.expectedValues, geo.result.value)

\* the same where a require is defined
PartitionedWhereRequireDefined ==
    (geo.op = "compareValuesInNotes" /\ geo.requireDefined) =>
        /\ ~geo.result.threw
        /\ PartitionOfKnown(geo.notesText, geo.expectedValues, geo.result.value)

\* the call of detectGeotechMismatches in geo was made without report data
GeotechDataAbsent ==
    geo.geotechData.isNull \/ ~geo.geotechData.hasExtractedValues

\* ... with report data, and without pages of a PDF
PdfPagesAbsent ==
    /\ ~GeotechDataAbsent
    /\ geo.pdfPages.isNull \/ Len(geo.pdfPages.pages) = 0

\* ... with data and pages, and a step inside it threw: the search for the
\* notes, or the comparison of the notes it found
InternalStepThrows ==
    /\ ~GeotechDataAbsent
    /\ ~PdfPagesAbsent
    /\ Then(findGeneralNotesSection(geo.pdfPages.pages),
            LAMBDA notes :
                \/ notes.threw
                \/ /\ notes.value # Null
                   /\ compareValuesInNotes(notes.value.text,
                                           geo.geotechData.extractedValues,
                                           geo.requireDefined).threw)

\* the promise is resolved with an empty result
ResolvesToNothingDetected ==
    /\ geo.result.promise = "resolved"
    /\ geo.result.value.detected = FALSE
    /\ geo.result.value.count = 0
    /\ geo.result.value.matches = <<>>
    /\ geo.result.value.mismatches = <<>>
    /\ geo.result.value.missing = <<>>

VerificationErrorPrefix == <<"Verification error: ">>

\* C16: detectGeotechMismatches never rejects. Without geotechData or its
\* extractedValues, without pdfPages, and when an internal step throws, it
\* resolves to detected = false, count = 0, empty matches, mismatches and
\* missing, and a message that differs between the three cases.
C16_NeverRejects ==
    geo.op = "detectGeotechMismatches" =>
        /\ geo.result.promise = "resolved"
        /\ GeotechDataAbsent =>
               /\ ResolvesToNothingDetected
               /\ geo.result.value.message = NoGeotechData
        /\ PdfPagesAbsent =>
               /\ ResolvesToNothingDetected
               /\ geo.result.value.message = NoPdfPages
        /\ InternalStepThrows =>
               /\ ResolvesToNothingDetected
               /\ SubSeq(geo.result.value.message, 1, 1) = VerificationErrorPrefix
               /\ Len(geo.result.value.message) = 2
        /\ NoGeotechData # NoPdfPages
        /\ VerificationErrorPrefix # SubSeq(NoGeotechData, 1, 1)
        /\ VerificationErrorPrefix # SubSeq(NoPdfPages, 1, 1)

\* a call in which compareValuesInNotes threw was resolved with the error's
\* message
C16_Witness ==
    /\ geo.op = "detectGeotechMismatches"
    /\ InternalStepThrows
    /\ ~findGeneralNotesSection(geo.pdfPages.pages).threw
    /\ geo.result.promise = "resolved"
    /\ geo.result.value.message = VerificationErrorPrefix \o RequireUndefined

\* the call in `call` is a resolved call of a detectOverlappingText
OverlappingTextResolved ==
    /\ call.promise = "resolved"
    /\ call.analyzer \in {"overlappingText", "overlappingTextDual"}

\* what the pdf-text method of that call found: the overlaps of
\* detectOverlapsFromPDF, or the overlaps the hybrid analyzer verified
PdfTextOverlaps ==
    IF ~HasTextItems(call.pdfPage) THEN <<>>
    ELSE IF call.analyzer = "overlappingTextDual"
    THEN detectOverlapsFromPDF(call.pdfPage)
    ELSE VerifiedOverlaps(CanvasOf(call.imageData), call.pdfPage.viewport,
                          CandidateOverlaps(call.pdfPage))

\* what the pixel method of that call found
PixelRegions ==
    IF call.analyzer = "overlappingTextDual"
    THEN FindElementsOf(call.imageData, "black")
    ELSE Untagged(FindElementsOf(call.imageData, "black"))

\* 'Found n overlapping text region(s) (p PDF, q pixel)'
MessageWithCounts(p, q) ==
    <<"Found ", p + q, " overlapping text region(s) (", p, " PDF, ", q,
      " pixel)">>

PlainUnion ==
    /\ call.value.count = Len(PdfTextOverlaps) + Len(PixelRegions)
    /\ call.value.locations = PdfTextOverlaps \o PixelRegions
    /\ \A k \in 1 .. Len(PixelRegions) :
           \E n \in 1 .. Len(call.value.locations) :
               call.value.locations[n] = PixelRegions[k]
    /\ call.value.count > 0 =>
           call.value.message = MessageWithCounts(Len(PdfTextOverlaps),
                                                  Len(PixelRegions))

\* C18: detectOverlappingText returns the plain union of both methods: the
\* count is the number of pdf-text overlaps plus the number of pixel
\* regions, no pixel region is dropped because it lies near a pdf-text
\* region, and the message states the count of each method.
C18_PlainUnionOfBothMethods == OverlappingTextResolved => PlainUnion

\* the two-method analyzer of part_005 returns the plain union
PlainUnionInDualAnalyzer ==
    (OverlappingTextResolved /\ call.analyzer = "overlappingTextDual")
        => PlainUnion

\* the gap of two boxes on an axis: the distance between the nearer edges,
\* 0 when the boxes overlap on that axis
GapBetween(lowA, highA, lowB, highB) ==
    IF lowA > highB THEN lowA - highB
    ELSE IF lowB > highA THEN lowB - highA
    ELSE 0

\* both gaps of the boxes a and b are at most threshold
WithinThreshold(a, b, threshold) ==
    /\ GapBetween(a.x, a.x + a.width, b.x, b.x + b.width) <= threshold
    /\ GapBetween(a.y, a.y + a.height, b.y, b.y + b.height) <= threshold

\* the threshold of each analyzer's merger
ThresholdOf(kind) ==
    CASE kind = "red" -> 15
      [] kind = "highlight" -> 20
      [] kind = "black" -> 10

\* C19: the merger's output is a fixed point: no two distinct boxes of the
\* returned list have both a horizontal and a vertical gap of at most the
\* threshold (gaps clamped at 0 where the boxes overlap on the axis), the
\* threshold being 15 for red, 20 for highlights, 10 for overlapping text.
C19_NoMergeablePairLeft ==
    mPhase \in {"merged", "remerged"} =>
        \A i, j \in 1 .. Len(mOut) :
            i # j => ~WithinThreshold(mOut[i], mOut[j], ThresholdOf(mKind))

\* three boxes of which the merger joined two that lay exactly the threshold
\* apart, and kept the box that lay one more than the threshold from them
C19_Witness ==
    /\ mPhase = "merged"
    /\ Len(mInput) = 3
    /\ Len(mOut) = 2
    /\ \E i, j \in 1 .. 3 :
          /\ i # j
          /\ mInput[i].x + mInput[i].width + ThresholdOf(mKind) = mInput[j].x
          /\ mInput[i].y = mInput[j].y
    /\ \E i, j \in 1 .. 2 :
          /\ mOut[i].x + mOut[i].width + ThresholdOf(mKind) + 1 = mOut[j].x
          /\ mOut[i].y = mOut[j].y

\* ------------------------------------------------------------------------
\* C21: the order of the patterns and the pages in extractSeismicValues
\* ------------------------------------------------------------------------
\* the pattern has on the page a match that the loop does not skip
AcceptedOn(config, p, page) ==
    \E k \in 1 .. Len(matchAll(page.fullText, config.patterns[p])) :
        Usable(config, matchAll(page.fullText, config.patterns[p])[k])

\* the patterns of the parameter with an accepted match on some page
AcceptedPatterns(config, pages) ==
    { p \in 1 .. Len(config.patterns) :
        \E g \in 1 .. Len(pages) : AcceptedOn(config, p, pages[g]) }

\* the values of the accepted matches of the pattern on the page
AcceptedValues(config, p, page) ==
    { normalizeValue(matchAll(page.fullText, config.patterns[p])[k].group1, config.type) :
        k \in { j \in 1 .. Len(matchAll(page.fullText, config.patterns[p])) :
                  Usable(config, matchAll(page.fullText, config.patterns[p])[j]) } }

\* C21: extractSeismicValues has an entry for each of the eleven parameters;
\* the value of a parameter is that of an accepted match of the first pattern,
\* in the order of the list, with an accepted match on any page, taken from
\* the first such page, whatever later patterns and pages hold; a parameter
\* without an accepted match keeps value null, pageNumber null, confidence 0.
C21_FirstPatternWithMatchWins ==
    geo.op = "extractSeismicValues" =>
        /\ DOMAIN geo.result = Range(SeismicKeys)
        /\ Cardinality(DOMAIN geo.result) = 11
        /\ \A key \in Range(SeismicKeys) :
              LET config == SEISMIC_PATTERNS[key]
                  accepted == AcceptedPatterns(config, geo.pages)
              IN IF accepted = {}
                 THEN /\ geo.result[key].value = NullValue
                      /\ geo.result[key].pageNumber = Null
                      /\ geo.result[key].confidence = 0
                 ELSE \E p \in accepted, g \in 1 .. Len(geo.pages) :
                        /\ \A q \in accepted : p <= q
                        /\ AcceptedOn(config, p, geo.pages[g])
                        /\ \A h \in 1 .. g - 1 : ~AcceptedOn(config, p, geo.pages[h])
                        /\ geo.result[key].value \in AcceptedValues(config, p, geo.pages[g])
                        /\ geo.result[key].pageNumber = geo.pages[g].pageNumber

\* a report where a later pattern of a parameter matches on an earlier page
\* than the first pattern with a match, the value is that of the first
\* pattern, and another parameter is not found at all
C21_Witness ==
    /\ geo.op = "extractSeismicValues"
    /\ \E key \in Range(SeismicKeys) :
          AcceptedPatterns(SEISMIC_PATTERNS[key], geo.pages) = {}
    /\ \E key \in Range(SeismicKeys) :
          LET config == SEISMIC_PATTERNS[key]
          IN \E p, q \in AcceptedPatterns(config, geo.pages) :
               \E g, h \in 1 .. Len(geo.pages) :
                  /\ p < q
                  /\ h < g
                  /\ \A r \in AcceptedPatterns(config, geo.pages) : p <= r
                  /\ AcceptedOn(config, q, geo.pages[h])
                  /\ ~AcceptedOn(config, p, geo.pages[h])
                  /\ AcceptedOn(config, p, geo.pages[g])
                  /\ geo.result[key].pageNumber = geo.pages[g].pageNumber
                  /\ geo.result[key].value \in AcceptedValues(config, p, geo.pages[g])
                  /\ geo.result[key].value \notin AcceptedValues(config, q, geo.pages[h])

\* ------------------------------------------------------------------------
\* C22: the pairs detectOverlapsFromPDF reports
\* ------------------------------------------------------------------------
\* the width and the height of the intersection of the two items' boxes in
\* PDF space, negative where the boxes are apart
IntersectionWidth(a, b) ==
    Min2(a.transform[5] + a.width, b.transform[5] + b.width)
        - Max2(a.transform[5], b.transform[5])

IntersectionHeight(a, b) ==
    Min2(a.transform[6] + a.height, b.transform[6] + b.height)
        - Max2(a.transform[6], b.transform[6])

\* the unordered pairs of items of the page, by their places, that are to be
\* reported
PairsToReport(pdfPage) ==
    LET items == pdfPage.textItems
        bubbles == findCalloutBubbles(items)
    IN { pair \in (1 .. Len(items)) \X (1 .. Len(items)) :
           /\ pair[1] < pair[2]
           /\ isLikelyText(items[pair[1]])
           /\ isLikelyText(items[pair[2]])
           /\ ~ItemInsideBubble(items[pair[1]], bubbles)
           /\ ~ItemInsideBubble(items[pair[2]], bubbles)
           /\ IntersectionWidth(items[pair[1]], items[pair[2]]) >= 0
           /\ IntersectionHeight(items[pair[1]], items[pair[2]]) >= 0
           /\ ~(/\ Len(Trim(items[pair[1]].str)) <= 2
                /\ Len(Trim(items[pair[2]].str)) <= 2)
           /\ IntersectionWidth(items[pair[1]], items[pair[2]]) > 5 * Den
           /\ IntersectionHeight(items[pair[1]], items[pair[2]]) > 5 * Den }

\* the regions of the pdf-text method in the resolved result
PdfTextRegions ==
    SelectSeq(tResult.locations, LAMBDA r : r.detectionMethod = "pdf-text")

OverlapsChecked ==
    tPhase = "resolved" /\ tAnalyzer = "overlappingText" /\ HasTextItems(tPdfPage)

\* C22: detectOverlapsFromPDF reports a pair of likely-text items, neither
\* inside a callout bubble, if and only if their boxes in PDF space intersect
\* on both axes, not both trimmed texts are at most 2 characters long, and
\* the intersection is more than 5 units wide and more than 5 units high;
\* each unordered pair is reported at most once.
C22_ReportedPairs ==
    OverlapsChecked =>
        /\ Len(PdfTextRegions) = Cardinality(PairsToReport(tPdfPage))
        /\ \A pair \in PairsToReport(tPdfPage) :
              \E k \in 1 .. Len(PdfTextRegions) :
                  /\ PdfTextRegions[k].text1 = tPdfPage.textItems[pair[1]].str
                  /\ PdfTextRegions[k].text2 = tPdfPage.textItems[pair[2]].str
                  /\ BoxOf(PdfTextRegions[k])
                       = MappedIntersection(tPdfPage.textItems[pair[1]],
                                            tPdfPage.textItems[pair[2]],
                                            tPdfPage.viewport)

\* a reported pair with one short text
C22_Witness ==
    /\ OverlapsChecked
    /\ Len(PdfTextRegions) = 1
    /\ \E pair \in PairsToReport(tPdfPage) :
          (Len(Trim(tPdfPage.textItems[pair[1]].str)) <= 2)
              # (Len(Trim(tPdfPage.textItems[pair[2]].str)) <= 2)

\* pairs left out for each of the reasons: two short texts, an item inside a
\* bubble, boxes that touch without a significant intersection
C22_WitnessLeftOut ==
    /\ OverlapsChecked
    /\ Len(PdfTextRegions) = 0
    /\ Len(tPdfPage.textItems) = 2
    /\ IntersectionWidth(tPdfPage.textItems[1], tPdfPage.textItems[2]) > 5 * Den
    /\ IntersectionHeight(tPdfPage.textItems[1], tPdfPage.textItems[2]) > 5 * Den
    /\ isLikelyText(tPdfPage.textItems[1])
    /\ isLikelyText(tPdfPage.textItems[2])

\* ------------------------------------------------------------------------
\* C23: the page findGeneralNotesSection returns
\* ------------------------------------------------------------------------
\* some heading pattern has a match in the text
MatchesHeading(fullText) ==
    \E p \in 1 .. Len(headingPatterns) :
        Len(matchAll(fullText, headingPatterns[p])) > 0

NotesSearched ==
    geo.op = "findGeneralNotesSection"

C23_WitnessFallback ==
    /\ NotesSearched
    /\ Len(geo.pages) = 2
    /\ geo.result.value.fallback
    /\ geo.result.value.text = geo.pages[1].fullText

\* ------------------------------------------------------------------------
\* C24: the tags of the regions of detectOverlappingText
\* ------------------------------------------------------------------------
OverlappingTextCalled ==
    tPhase = "resolved" /\ tAnalyzer = "overlappingText"

\* C24: every region in the result of detectOverlappingText, of the pdf-text
\* method or of the pixel method, merged regions included, carries
\* isCanvasCoords = true and a detectionMethod tag.
C24_EveryRegionTagged ==
    OverlappingTextCalled =>
        \A k \in 1 .. Len(tResult.locations) :
            /\ tResult.locations[k].isCanvasCoords
            /\ tResult.locations[k].detectionMethod \in {"pdf-text", "pixel"}

\* the regions that carry both tags are those no merge produced: the
\* pdf-text regions and the traced regions that the merger left alone
TaggedUnlessMerged ==
    OverlappingTextCalled =>
        \A k \in 1 .. Len(tResult.locations) :
            \/ /\ tResult.locations[k].isCanvasCoords
               /\ tResult.locations[k].detectionMethod \in {"pdf-text", "pixel"}
            \/ /\ ~tResult.locations[k].isCanvasCoords
               /\ tResult.locations[k].detectionMethod = "undefined"
               /\ tImage = "twoLines"

\* a result with a tagged pixel region, and one with a merged region
TaggedPixelRegionReached ==
    /\ OverlappingTextCalled
    /\ \E k \in 1 .. Len(tResult.locations) :
          tResult.locations[k].detectionMethod = "pixel"

MergedRegionReached ==
    /\ OverlappingTextCalled
    /\ \E k \in 1 .. Len(tResult.locations) :
          /\ ~tResult.locations[k].isCanvasCoords
          /\ tResult.locations[k].height > 2 * 10

\* ------------------------------------------------------------------------
\* C25: the items findParameterPosition examines after the label
\* ------------------------------------------------------------------------
PositionSearched ==
    geo.op = "findParameterPosition"

\* the place of the label item: the first item that holds the first search
\* term held by any item; 0 if no item holds a term
LabelPlace(textItems, parameterKey) ==
    LET terms == searchTerms[parameterKey]
        holds(t, i) == includes(toUpperCase(textItems[i].text),
                                toUpperCase(terms[t]))
        found == { t \in 1 .. Len(terms) : \E i \in 1 .. Len(textItems) : holds(t, i) }
    IN IF found = {} THEN 0
       ELSE LET t == CHOOSE t \in found : \A u \in found : t <= u
            IN CHOOSE i \in 1 .. Len(textItems) :
                  holds(t, i) /\ \A j \in 1 .. i - 1 : ~holds(t, j)

\* the box of the label item at place i extended to the value texts among
\* the n items that follow it, fewer at the end of the list
BoxOverFollowing(textItems, i, n) ==
    LET values == { j \in i + 1 .. Min2(i + n, Len(textItems)) :
                      LooksLikeValue(textItems[j].text) }
        right == { textItems[i].x + textItems[i].width }
                 \cup { textItems[j].x + textItems[j].width : j \in values }
        high == { textItems[i].height } \cup { textItems[j].height : j \in values }
    IN [x |-> textItems[i].x, y |-> textItems[i].y,
        width |-> Max2((CHOOSE a \in right : \A b \in right : a >= b)
                          - textItems[i].x, 100),
        height |-> Max2(CHOOSE a \in high : \A b \in high : a >= b, 20)]

\* the entries of the list missing carry no position
MissingWithoutPosition ==
    (/\ geo.op = "detectGeotechMismatches"
     /\ geo.result.promise = "resolved")
    => \A k \in 1 .. Len(geo.result.value.missing) :
          "x" \notin DOMAIN geo.result.value.missing[k]

\* C25: findParameterPosition examines the 10 text items that follow the
\* label item, fewer only at the end of the list, when it extends the box to
\* the value text; no position is computed for the parameters classified as
\* missing.
C25_TenItemsAfterLabel ==
    /\ (PositionSearched /\ LabelPlace(geo.textItems, geo.parameterKey) > 0)
       => geo.result = BoxOverFollowing(geo.textItems,
                          LabelPlace(geo.textItems, geo.parameterKey), 10)
    /\ MissingWithoutPosition

\* the box reaches over the 9 items that follow the label
NineItemsAfterLabel ==
    (PositionSearched /\ LabelPlace(geo.textItems, geo.parameterKey) > 0)
    => geo.result = BoxOverFollowing(geo.textItems,
                       LabelPlace(geo.textItems, geo.parameterKey), LookAhead - 1)

\* a value 10 items after its label, and one 9 items after it
TenthItemLeftOut ==
    /\ PositionSearched
    /\ LabelPlace(geo.textItems, geo.parameterKey) = 1
    /\ Len(geo.textItems) = 11
    /\ LooksLikeValue(geo.textItems[11].text)
    /\ geo.result.width = 100

NinthItemIncluded ==
    /\ PositionSearched
    /\ LabelPlace(geo.textItems, geo.parameterKey) = 1
    /\ Len(geo.textItems) = 10
    /\ geo.result.width > 100

\* ------------------------------------------------------------------------
\* C26: the calls of the progress callback (checked under SpecCalls)
\* ------------------------------------------------------------------------
\* the value the same call resolves to when it is given a callback
ValueWithCallback(c) ==
    CASE c.analyzer = "redElements" ->
            RedElementsLoaded(c.imageData, TRUE).result
      [] c.analyzer = "highlights" ->
            HighlightsLoaded(c.imageData, TRUE).result
      [] c.analyzer = "overlappingText" ->
            OverlappingTextLoaded(c.imageData, TRUE, c.pdfPage).result
      [] c.analyzer = "overlappingTextDual" ->
            detectOverlappingText(c.imageData, TRUE, c.pdfPage).result
      [] c.analyzer = "noRefs" ->
            detectNoRefs(TRUE, c.pdfPage).result

\* the callback was called at most once, not before the detection was done,
\* with the count of the result, and the result does not depend on it
ProgressOnceWithCount(c) ==
    /\ Len(c.progress) <= 1
    /\ c.promise = "pending" => c.progress = <<>>
    /\ ~c.hasOnProgress => c.progress = <<>>
    /\ c.promise = "resolved" =>
          /\ \A k \in 1 .. Len(c.progress) : c.progress[k] = c.value.count
          /\ c.value = ValueWithCallback(c)

\* C26: each analyzer call invokes the progress callback at most once, only
\* after detection and merging are complete and before the call resolves,
\* with an argument equal to the count of the result it resolves to; without
\* a callback the result is the same.
C26_ProgressOnceAfterDetection ==
    call.promise # "none" => ProgressOnceWithCount(call)

\* the same of the red-element analyzer, the highlight analyzer, the
\* missing-reference analyzer and the two-method overlapping-text analyzer
ProgressOnceOutsideHybrid ==
    (call.promise # "none" /\ call.analyzer # "overlappingText")
    => ProgressOnceWithCount(call)

\* a call of such an analyzer that reported its count
CountReported ==
    /\ call.promise = "resolved"
    /\ call.analyzer \in {"redElements", "highlights", "overlappingTextDual"}
    /\ call.progress = <<call.value.count>>
    /\ call.value.count > 0

\* a call of the hybrid analyzer that reported twice
ReportedTwice ==
    /\ call.promise = "resolved"
    /\ call.analyzer = "overlappingText"
    /\ Len(call.progress) > 1

\* ------------------------------------------------------------------------
\* C27: the merger's loop ends (checked under FairSpecMergeLoop)
\* ------------------------------------------------------------------------
\* a pass either merged, left fewer boxes and is followed by another pass,
\* or merged nothing, left the list as it was and ended the loop
PassDecreasesOrEnds ==
    mPhase = "looping" =>
        \/ /\ mPhase' = "looping"
           /\ Len(mOut') < Len(mOut)
        \/ /\ mPhase' = "done"
           /\ mOut' = mOut

\* C27: the region merger terminates on every finite input: every pass that
\* performs a merge strictly decreases the number of boxes, and the loop ends
\* after the first pass in which no merge happens.
C27_MergerTerminates ==
    /\ [][PassDecreasesOrEnds]_vars
    /\ <>(mPhase = "done")

\* the loop returns what the merger returns
LoopReturnsMerged ==
    mPhase = "done" => mOut = MergerOf(mKind, mInput)

\* three boxes were merged into one and a last pass merged nothing
C27_Witness ==
    /\ mPhase = "done"
    /\ Len(mInput) = 3
    /\ Len(mOut) = 1
    /\ mOut2 = mOut

\* two passes in a row merged
TwoMergingPasses ==
    /\ mPhase = "looping"
    /\ Len(mInput) = 3
    /\ Len(mOut2) = 2
    /\ Len(mOut) = 1

\* ------------------------------------------------------------------------
\* C28: what the merger keeps (checked under SpecMerge)
\* ------------------------------------------------------------------------
\* the sum of pixelCount over the boxes at the places in S
RECURSIVE PixelCountOver(_, _)
PixelCountOver(boxes, S) ==
    IF S = {} THEN 0
    ELSE LET i == CHOOSE i \in S : TRUE
         IN boxes[i].pixelCount + PixelCountOver(boxes, S \ {i})

\* the box inner lies inside the box outer
Contains(outer, inner) ==
    /\ outer.x <= inner.x
    /\ outer.y <= inner.y
    /\ inner.x + inner.width <= outer.x + outer.width
    /\ inner.y + inner.height <= outer.y + outer.height

\* the places of the input boxes that lie inside the output box
MembersOf(out) ==
    { i \in 1 .. Len(mInput) : Contains(out, mInput[i]) }

\* the box is the smallest one that encloses the input boxes at the places
\* in S: it encloses each, and each of its sides is a side of one of them
MinimalAround(out, S) ==
    /\ \A i \in S : Contains(out, mInput[i])
    /\ \E i \in S : mInput[i].x = out.x
    /\ \E i \in S : mInput[i].y = out.y
    /\ \E i \in S : mInput[i].x + mInput[i].width = out.x + out.width
    /\ \E i \in S : mInput[i].y + mInput[i].height = out.y + out.height

\* C28: the region merger neither loses nor invents content: the sum of
\* pixelCount over the output boxes equals the sum over the input boxes,
\* every input box is contained in exactly one output box, and every output
\* box is the minimal box enclosing the input boxes merged into it.
C28_MergerKeepsContent ==
    mPhase = "merged" =>
        /\ PixelCountOver(mOut, DOMAIN mOut) = PixelCountOver(mInput, DOMAIN mInput)
        /\ \A i \in 1 .. Len(mInput) :
              Cardinality({ k \in 1 .. Len(mOut) : Contains(mOut[k], mInput[i]) }) = 1
        /\ \A k \in 1 .. Len(mOut) :
              /\ MinimalAround(mOut[k], MembersOf(mOut[k]))
              /\ mOut[k].pixelCount = PixelCountOver(mInput, MembersOf(mOut[k]))

\* three boxes of which two were merged into one and the third was kept
C28_Witness ==
    /\ mPhase = "merged"
    /\ Len(mInput) = 3
    /\ Len(mOut) = 2
    /\ \E k \in 1 .. Len(mOut) :
          /\ Cardinality(MembersOf(mOut[k])) = 2
          /\ \A i \in MembersOf(mOut[k]) : mInput[i].width < mOut[k].width

\* ------------------------------------------------------------------------
\* C29: the count and the lists of detectGeotechMismatches
\* ------------------------------------------------------------------------
\* the call resolved with a result
VerificationResolved ==
    /\ geo.op = "detectGeotechMismatches"
    /\ geo.result.promise = "resolved"

\* the call came as far as the comparison with the notes
NotesCompared ==
    /\ VerificationResolved
    /\ "notesPageNumber" \in DOMAIN geo.result.value

\* what compareValuesInNotes returned in the call
ComparisonOfCall ==
    compareValuesInNotes(findGeneralNotesSection(geo.pdfPages.pages).value.text,
                         geo.geotechData.extractedValues,
                         geo.requireDefined).value

\* count is the length of the two returned lists, and detected tells
\* whether it is positive
CountOfReturnedLists ==
    VerificationResolved =>
        /\ geo.result.value.count
             = Len(geo.result.value.mismatches) + Len(geo.result.value.missing)
        /\ geo.result.value.detected = (geo.result.value.count > 0)

\* every parameter of the comparison's matches and mismatches is in the
\* returned list of the same name
ComparedParametersReturned ==
    NotesCompared =>
        /\ ParametersOf(ComparisonOfCall.matches)
             \subseteq ParametersOf(geo.result.value.matches)
        /\ ParametersOf(ComparisonOfCall.mismatches)
             \subseteq ParametersOf(geo.result.value.mismatches)

CountOfComparison ==
    NotesCompared =>
        /\ geo.result.value.count
             = Len(ComparisonOfCall.mismatches) + Len(ComparisonOfCall.missing)
        /\ geo.result.value.detected = (geo.result.value.count > 0)
        /\ ParametersOf(geo.result.value.mismatches)
             = { key \in ParametersOf(ComparisonOfCall.mismatches) :
                   findParameterPosition(ItemsOf(geo.pdfPages.pages[1]), key) # Null }
        /\ ParametersOf(geo.result.value.matches)
             = { key \in ParametersOf(ComparisonOfCall.matches) :
                   findParameterPosition(ItemsOf(geo.pdfPages.pages[1]), key) # Null }

\* a mismatch without a position was counted and not returned
MismatchCountedNotReturned ==
    /\ NotesCompared
    /\ Len(ComparisonOfCall.mismatches) > 0
    /\ Len(geo.result.value.mismatches) = 0
    /\ geo.result.value.count > Len(geo.result.value.missing)

\* a result whose lists are those of the comparison
AllEntriesLocated ==
    /\ NotesCompared
    /\ Len(ComparisonOfCall.mismatches) > 0
    /\ Len(geo.result.value.mismatches) = Len(ComparisonOfCall.mismatches)
    /\ Len(geo.result.value.matches) = Len(ComparisonOfCall.matches)

\* ------------------------------------------------------------------------
\* C30: overlapping uploads
\* ------------------------------------------------------------------------
\* the run r has set results, and pages and pdfPages are its upload's
ShowsRun(r) ==
    /\ runs[r].pc = "done"
    /\ results.pages = runs[r].allPageResults
    /\ shownPages = PagesOf(runs[r].result)
    /\ shownPdfPages = runs[r].result.pdfPages

ResultsOfShownPages ==
    ~results.isNull => \E r \in 1 .. Len(runs) : ShowsRun(r)

IdleOnlyWhenNoRun ==
    ~loading => \A r \in 1 .. Len(runs) : ~InProgress(runs[r])

\* C30: whenever results is set, results, pages and pdfPages are those of
\* one upload, and loading is false only when no run of handleFileUpload is
\* still in progress, also when a second upload starts before the analysis
\* of the first has finished
C30_OverlappingUploadsConsistent ==
    ResultsOfShownPages /\ IdleOnlyWhenNoRun

\* as long as a single upload has been analysed, both hold
SingleUploadConsistent ==
    Len(runs) <= 1 => ResultsOfShownPages /\ IdleOnlyWhenNoRun

====
